---- MODULE Spec2Model ----
(***************************************************************************)
(* Model of the reservation system: the inventory service (Redis-backed    *)
(* with an in-memory fallback), the reservations service (the locked       *)
(* POST /reservas saga, DELETE /reservas/:id, the stale-read cache), the   *)
(* payment service's transactions, the resilient HTTP client               *)
(* (retryWithBackoff inside a circuit breaker with a timeout) and the      *)
(* Bulkhead class.  One event (one lock key) is modelled: the services     *)
(* keep events apart by key, so events do not interact.                    *)
(***************************************************************************)
EXTENDS Integers, Sequences, FiniteSets, TLC

\* ------------------------------------------------------------------ bounds
NumSagas == 2
NumCancels == 1
MaxUnits == 2
MaxAsientos == 1
NumTasks == 5
\* the Bulkhead's constructor argument (10 for pagosBulkhead, 50 in the gateway)
MaxConcurrent == 2

\* ------------------------------------------------------- program constants
\* retryWithBackoff defaults
InitialDelay == 1000
MaxDelay == 10000
Factor == 2
\* inventarioClient
InventarioRetries == 2
InventarioBreakerTimeout == 3000

\* event ids given to consultarInventario
NumEventos == 2
\* calls of breaker.fire
NumCalls == 6
\* the design's queueTimeout of the Bulkhead, in time units
QueueTimeout == 1
\* requests sent to the inventory service
NumRequests == 2
\* clients of redlock contending for one key
NumClients == 2
\* DELETE requests for one reservation
NumDeletes == 2
\* how long a saga execution takes to answer: below and above the gateway's timeout
DuracionCorta == 500
DuracionLarga == 12000

Sagas == 1..NumSagas
Cancels == (NumSagas + 1)..(NumSagas + NumCancels)
Callers == Sagas \cup Cancels
Tasks == 1..NumTasks
Eventos == 1..NumEventos
BrCallIds == 1..NumCalls
ReqIds == 1..NumRequests
LsClients == 1..NumClients
Deletes == 1..NumDeletes

Min(a, b) == IF a < b THEN a ELSE b

VARIABLES
  totalUnits,      \* the event's initial asientosDisponibles (ghost: the code keeps no total)
  redisUp,         \* environment: the inventory service's Redis connection works
  redisConnected,  \* inventory service: let redisConnected
  redisInv,        \* asientosDisponibles stored under the Redis key inventario:<id>
  memInv,          \* asientosDisponibles of the event in inventarioMemoria
  redlockUp,       \* reservations service: redlock !== null
  lockStore,       \* value of the key lock:evento:<id> in the lock store (0: absent)
  lease,           \* per saga: its Lock object ("none" is lock === null)
  pc,              \* per saga: position in the POST /reservas handler
  asientos,        \* per saga: req.body.asientos
  fromCache,       \* per saga: inventario.fromCache
  errPago,         \* per saga: the payment error caught at line 275
  liberado,        \* per saga: what the compensation logged ("ok", "CRITICAL", "" if none)
  outcome,         \* per saga: the response sent ("" while none)
  notificado,      \* per saga: how the notification call ended ("" while not made)
  cache,           \* inventarioCache entry of the event: cached asientosDisponibles, -1 if none
  call,            \* per caller: its POST through inventarioClient (retry loop state;
                   \* refused: the store answered 409 while the caller waited)
  tx,              \* per saga: state of the payment transaction of its reservaId
  reservas,        \* per saga: estado of its entry in the reservas Map
  cpc,             \* per DELETE request: position in the handler
  ctarget,         \* per DELETE request: the reservation it cancels
  cout,            \* per DELETE request: the status answered (0 while none)
  fault,           \* history: a collaborator has failed, hung or been slow so far
  currentConcurrent, \* Bulkhead: this.currentConcurrent
  queue,           \* Bulkhead: this.queue, the waiting tasks in order
  tstate,          \* per task submitted to the Bulkhead: where it is
  espera,          \* history: per task, the time units it has waited in the queue
  rtMax,           \* retryWithBackoff: maxRetries of the call
  rtAttempt,       \* retryWithBackoff: the loop variable attempt
  rtPc,            \* retryWithBackoff: "call", "sleep", "returned" or "thrown"
  rtLog,           \* history: how each invocation of fn ended, in order
  rtResult,        \* what the call returned or threw: <<kind, attempt>>
  rtSlept,         \* history: milliseconds slept between the attempts
  pgLock,          \* payment step: the saga holds a redlock lease (lock !== null)
  pgLatencia,      \* payment service: the latency its middleware adds, in ms
  pgPc,            \* payment step: "pago", "compensar", "confirmar" or "done"
  pgAttempt,       \* payment step: attempt of pagosClient's retry loop
  pgElapsed,       \* ms since procesarPago was called (when it settled, after that)
  pgTiempo,        \* history: ms the payment service took to answer first (-1: not yet)
  pgErr,           \* payment step: the error procesarPago threw ("" if none)
  pgOutcome,       \* payment step: the saga's response ("" while none)
  pgUnits,         \* payment step: asientosDisponibles of the event
  pgInicial,       \* history: asientosDisponibles before the saga's decrement
  icNow,           \* reservations service: Date.now(), in ms
  inventarioCache, \* per eventoId: the entry of the Map inventarioCache
  icResult,        \* what the last consultarInventario call returned or threw
  brState,         \* breaker: "closed", "open" or "halfOpen"
  brPendingClose,  \* breaker: half-open and its probe not yet admitted
  brResetTimer,    \* breaker: the reset timer is running
  brFires,         \* breaker: calls in the rolling window
  brFailures,      \* breaker: failed calls in the rolling window
  brCalls,         \* per call of breaker.fire: where it is
  brProbe,         \* history: the call last admitted in half-open (0: none)
  brContacts,      \* history: how many times the wrapped function was invoked
  ivReq,           \* inventory service: per request sent to it, where its handler is
  gwPc,            \* gateway POST /api/reservas: where its retry loop is
  gwAttempt,       \* gateway: attempt number of retryWithBackoff (0-based)
  gwElapsed,       \* gateway: ms since breaker.fire
  gwResp,          \* gateway: status answered to the client (0: not yet)
  gwExec,          \* per attempt: the saga execution its POST /reservas started
  lsHolder,        \* lock key in Redis: the client whose value it holds (0: absent)
  lsTtl,           \* lock key in Redis: ms left before it expires
  lsSt,            \* per client of redlock: where it is
  lsTries,         \* per client: failed attempts of the running acquire
  lsReady,         \* per client: its next attempt is due now
  dlEstado,        \* reservations service: reserva.estado of the reservation cancelled
  dlTx,            \* payment service: transaccion.estado of its transaction
  dlSeats,         \* inventory service: asientosDisponibles of its event
  dlPc,            \* per DELETE /reservas/:id request: position in the handler
  dlResp,          \* per DELETE request: the status answered (0 while none)
  dlRefund,        \* per DELETE request: the answer to its POST /pagos/reembolsar (0: none)
  dlReleases,      \* history: how many liberar requests the inventory service executed
  dlFault,         \* history: a collaborator failed during a DELETE
  simularFallo,    \* inventory service: const SIMULAR_FALLO
  envSimularFallo, \* inventory service: process.env.SIMULAR_FALLO === 'true'
  simularLatencia, \* payment service: const SIMULAR_LATENCIA
  envSimularLatencia, \* payment service: process.env.SIMULAR_LATENCIA === 'true'
  latenciaMs,      \* payment service: const LATENCIA_MS
  envLatenciaMs,   \* payment service: process.env.LATENCIA_MS
  adActivar,       \* history: activar of the last POST /admin/simular-fallo sent
                   \* (before the first: how the service was started)
  adInventario,    \* how the last inventory request sent since then ended ("none": none)
  adDemora         \* ms the middleware delayed the last payment request sent since the
                   \* last POST /admin/simular-latencia (-1: none)

invVars == <<redisUp, redisConnected, redisInv, memInv>>
lockVars == <<lockStore, lease>>
sagaVars == <<pc, asientos, fromCache, errPago, liberado, outcome, notificado>>
cancelVars == <<cpc, ctarget, cout>>
bulkVars == <<currentConcurrent, queue, tstate, espera>>
sysVars == <<totalUnits, invVars, redlockUp, lockVars, sagaVars, cache, call, tx,
             reservas, cancelVars, fault>>
rtVars == <<rtMax, rtAttempt, rtPc, rtLog, rtResult, rtSlept>>
pgVars == <<pgLock, pgLatencia, pgPc, pgAttempt, pgElapsed, pgTiempo, pgErr, pgOutcome,
           pgUnits, pgInicial>>
icVars == <<icNow, inventarioCache, icResult>>
brVars == <<brState, brPendingClose, brResetTimer, brFires, brFailures, brCalls, brProbe,
           brContacts>>
ivVars == <<ivReq>>
gwVars == <<gwPc, gwAttempt, gwElapsed, gwResp, gwExec>>
lsVars == <<lsHolder, lsTtl, lsSt, lsTries, lsReady>>
dlVars == <<dlEstado, dlTx, dlSeats, dlPc, dlResp, dlRefund, dlReleases, dlFault>>
adVars == <<simularFallo, envSimularFallo, simularLatencia, envSimularLatencia, latenciaMs,
           envLatenciaMs, adActivar, adInventario, adDemora>>
vars == <<sysVars, bulkVars, rtVars, pgVars, icVars, brVars, ivVars, gwVars, lsVars, dlVars,
          adVars>>

\* what the actions of each part leave alone
notSys == <<bulkVars, rtVars, pgVars, icVars, brVars, ivVars, gwVars, lsVars,
             dlVars, adVars>>
notBulk == <<sysVars, rtVars, pgVars, icVars, brVars, ivVars, gwVars, lsVars,
             dlVars, adVars>>
notRt == <<sysVars, bulkVars, pgVars, icVars, brVars, ivVars, gwVars, lsVars,
             dlVars, adVars>>
notPg == <<sysVars, bulkVars, rtVars, icVars, brVars, ivVars, gwVars, lsVars,
             dlVars, adVars>>
notIc == <<sysVars, bulkVars, rtVars, pgVars, brVars, ivVars, gwVars, lsVars,
             dlVars, adVars>>
notBr == <<sysVars, bulkVars, rtVars, pgVars, icVars, ivVars, gwVars, lsVars,
             dlVars, adVars>>
\* the libraries, for the specification of the inventory service's handlers
libVars == <<bulkVars, rtVars, pgVars, icVars, brVars, gwVars, lsVars,
             dlVars, adVars>>

\* ---------------------------------------------------------- retry timing
RECURSIVE Pow(_, _)
Pow(b, k) == IF k = 0 THEN 1 ELSE b * Pow(b, k - 1)

\* retryWithBackoff: the sleep after failed attempt number `attempt` (0-based)
RetryDelay(attempt) == Min(InitialDelay * Pow(Factor, attempt), MaxDelay)

\* the time slept before attempt k of one retryWithBackoff call starts
RECURSIVE DelayBefore(_)
DelayBefore(k) == IF k = 0 THEN 0 ELSE DelayBefore(k - 1) + RetryDelay(k - 1)

\* The breaker's timer is set when fire() is called, before the first attempt:
\* an attempt that starts after sleeping for at least the breaker's timeout
\* starts after the breaker has rejected the caller with its timeout error.
StartsAfterTimeout(k) == DelayBefore(k) >= InventarioBreakerTimeout

\* ------------------------------------------------- inventory service store
Inv == [rc |-> redisConnected, redis |-> redisInv, mem |-> memInv]

\* what GET /inventario/:eventoId answers as asientosDisponibles, and the
\* redisConnected it leaves (a Redis error switches the service to memory)
GetHandler(st, up) ==
  IF st.rc /\ up THEN [st |-> st, disponibles |-> st.redis]
  ELSE [st |-> [st EXCEPT !.rc = FALSE], disponibles |-> st.mem]

\* faulty variant of MemReservar (sensitivity of C1): the decrement without
\* the availability test
MemReservarUnchecked(st, n) ==
  [st |-> [st EXCEPT !.mem = @ - n], status |-> 200]

\* the in-memory branch of POST /inventario/:eventoId/reservar
MemReservar(st, n) ==
  IF st.mem < n THEN [st |-> st, status |-> 409]
  ELSE [st |-> [st EXCEPT !.mem = @ - n], status |-> 200]

\* the Lua script: an error reply, or the conditional decrement
LuaReservar(disponibles, n) ==
  IF disponibles < n THEN [err |-> TRUE, disponibles |-> disponibles]
  ELSE [err |-> FALSE, disponibles |-> disponibles - n]

\* POST /inventario/:eventoId/reservar: redis.eval rejects on a connection
\* error and on the script's error reply alike; the catch switches to memory
\* and the handler goes on with the in-memory branch.
ReservarHandler(st, up, n) ==
  IF ~st.rc THEN MemReservar(st, n)
  ELSE IF up /\ ~LuaReservar(st.redis, n).err
       THEN [st |-> [st EXCEPT !.redis = LuaReservar(st.redis, n).disponibles],
             status |-> 200]
       ELSE MemReservar([st EXCEPT !.rc = FALSE], n)

\* POST /inventario/:eventoId/liberar up to the await of redis.get: either the
\* value read (the handler then waits to write it back), or the request
\* finished in memory.  rd = -1: no Redis read pending.
LiberarGet(st, up, n) ==
  IF st.rc /\ up THEN [st |-> st, rd |-> st.redis]
  ELSE [st |-> [st EXCEPT !.rc = FALSE, !.mem = @ + n], rd |-> -1]

\* ... and from redis.set on: the value read plus cantidad is written back;
\* a Redis error, or redisConnected found false afterwards, adds to memory.
LiberarSet(st, up, n, rd) ==
  IF up
  THEN IF st.rc THEN [st EXCEPT !.redis = rd + n]
       ELSE [st EXCEPT !.redis = rd + n, !.mem = @ + n]
  ELSE [st EXCEPT !.rc = FALSE, !.mem = @ + n]

\* asientosDisponibles as the service reports it
Disponibles == IF redisConnected THEN redisInv ELSE memInv

\* ------------------------------------------------------------------ Init
\* new Bulkhead(maxConcurrent): nothing runs, nothing waits
BulkheadInit ==
  /\ currentConcurrent = 0
  /\ queue = <<>>
  /\ tstate = [t \in Tasks |-> "new"]
  /\ espera = [t \in Tasks |-> 0]

NoCall == [kind |-> "none", att |-> 0, waiting |-> FALSE, n |-> 0, rd |-> -1,
           refused |-> FALSE]
StartCall(k, n) == [kind |-> k, att |-> 0, waiting |-> TRUE, n |-> n, rd |-> -1,
                    refused |-> FALSE]

\* no retryWithBackoff call under way
RtIdle ==
  /\ rtMax = 0
  /\ rtAttempt = 0
  /\ rtPc = "returned"
  /\ rtLog = <<>>
  /\ rtResult = <<"none", 0>>
  /\ rtSlept = 0

\* no saga in its payment step
PgIdle ==
  /\ pgLock = FALSE
  /\ pgLatencia = 0
  /\ pgPc = "done"
  /\ pgAttempt = 0
  /\ pgElapsed = 0
  /\ pgTiempo = -1
  /\ pgErr = ""
  /\ pgOutcome = ""
  /\ pgUnits = 1
  /\ pgInicial = 1

\* inventarioCache.get(id) of an id without entry (undefined)
NoEntry == [data |-> -1, timestamp |-> -1]
NoResult == [evento |-> 0, kind |-> "none", data |-> -1, fromCache |-> FALSE, at |-> 0]

\* no consultarInventario call made, the cache empty
IcIdle ==
  /\ icNow = 0
  /\ inventarioCache = [e \in Eventos |-> NoEntry]
  /\ icResult = NoResult

\* a breaker as constructed: closed, its window empty
BrIdle ==
  /\ brState = "closed"
  /\ brPendingClose = FALSE
  /\ brResetTimer = FALSE
  /\ brFires = 0
  /\ brFailures = 0
  /\ brCalls = [c \in BrCallIds |-> "new"]
  /\ brProbe = 0
  /\ brContacts = 0

\* no request sent to the inventory service on its own
IvIdle == ivReq = [r \in ReqIds |-> [kind |-> "none", n |-> 0, pc |-> "done", rd |-> -1,
                                      status |-> 0]]

\* api-gateway: reservasClient options
GatewayRetries == 2
GatewayTimeout == 10000
GatewayBreakerTimeout == 10000
GwAttempts == 0..GatewayRetries
NoExec == [st |-> "none", status |-> 0, dec |-> FALSE, charged |-> FALSE, dur |-> 0]

\* no request received by the gateway
GwIdle ==
  /\ gwPc = "idle"
  /\ gwAttempt = 0
  /\ gwElapsed = 0
  /\ gwResp = 0
  /\ gwExec = [a \in GwAttempts |-> NoExec]

\* the lock key absent, no client of redlock
LsIdle ==
  /\ lsHolder = 0
  /\ lsTtl = 0
  /\ lsSt = [c \in LsClients |-> "idle"]
  /\ lsTries = [c \in LsClients |-> 0]
  /\ lsReady = [c \in LsClients |-> FALSE]

\* payment service: the default of LATENCIA_MS, and a latency beyond
\* pagosClient's timeout (LATENCIA_MS is set by the environment)
LatenciaMs == 20000
LatenciaLarga == 30000

\* no DELETE request; the reservation confirmada, its payment completado
DlIdle ==
  /\ dlEstado = "confirmada"
  /\ dlTx = "completado"
  /\ dlSeats = 0
  /\ dlPc = [d \in Deletes |-> "done"]
  /\ dlResp = [d \in Deletes |-> 0]
  /\ dlRefund = [d \in Deletes |-> 0]
  /\ dlReleases = 0
  /\ dlFault = FALSE

\* the services started without fault injection, no request yet
AdIdle ==
  /\ simularFallo = FALSE
  /\ envSimularFallo = FALSE
  /\ simularLatencia = FALSE
  /\ envSimularLatencia = FALSE
  /\ latenciaMs = LatenciaMs
  /\ envLatenciaMs = LatenciaMs
  /\ adActivar = FALSE
  /\ adInventario = "none"
  /\ adDemora = -1

\* inicializarInventario writes the same events to memory and, when Redis is
\* connected, to Redis; redlock exists iff the reservations service
\* connected to Redis at startup.
Init ==
  /\ totalUnits \in 1..MaxUnits
  /\ redisUp \in BOOLEAN
  /\ redisConnected = redisUp
  /\ redisInv = totalUnits
  /\ memInv = totalUnits
  /\ redlockUp \in BOOLEAN
  /\ lockStore = 0
  /\ lease = [s \in Sagas |-> "none"]
  /\ pc = [s \in Sagas |-> "init"]
  /\ asientos = [s \in Sagas |-> 0]
  /\ fromCache = [s \in Sagas |-> FALSE]
  /\ errPago = [s \in Sagas |-> ""]
  /\ liberado = [s \in Sagas |-> ""]
  /\ outcome = [s \in Sagas |-> ""]
  /\ notificado = [s \in Sagas |-> ""]
  /\ cache = -1
  /\ call = [c \in Callers |-> NoCall]
  /\ tx = [s \in Sagas |-> "none"]
  /\ reservas = [s \in Sagas |-> "none"]
  /\ cpc = [c \in Cancels |-> "idle"]
  /\ ctarget = [c \in Cancels |-> 0]
  /\ cout = [c \in Cancels |-> 0]
  /\ fault = FALSE
  /\ BulkheadInit
  /\ IcIdle
  /\ BrIdle
  /\ IvIdle
  /\ GwIdle
  /\ LsIdle
  /\ DlIdle
  /\ AdIdle
  /\ RtIdle
  /\ PgIdle

\* the reservations service at rest; and all services at rest, for the
\* specifications of the library classes
SagasIdle ==
  /\ redlockUp = TRUE
  /\ lockStore = 0
  /\ lease = [s \in Sagas |-> "none"]
  /\ pc = [s \in Sagas |-> "init"]
  /\ asientos = [s \in Sagas |-> 0]
  /\ fromCache = [s \in Sagas |-> FALSE]
  /\ errPago = [s \in Sagas |-> ""]
  /\ liberado = [s \in Sagas |-> ""]
  /\ outcome = [s \in Sagas |-> ""]
  /\ notificado = [s \in Sagas |-> ""]
  /\ cache = -1
  /\ call = [c \in Callers |-> NoCall]
  /\ tx = [s \in Sagas |-> "none"]
  /\ reservas = [s \in Sagas |-> "none"]
  /\ cpc = [c \in Cancels |-> "idle"]
  /\ ctarget = [c \in Cancels |-> 0]
  /\ cout = [c \in Cancels |-> 0]
  /\ fault = FALSE

SysIdle ==
  /\ totalUnits = 1
  /\ redisUp = TRUE
  /\ redisConnected = TRUE
  /\ redisInv = 1
  /\ memInv = 1
  /\ SagasIdle

\* ------------------------------------------------ lock release and response
\* lock.release() on a lease the store still holds for s
Released(s) ==
  /\ lockStore' = IF lockStore = s THEN 0 ELSE lockStore
  /\ lease' = [lease EXCEPT ![s] = "released"]

\* the outer catch (lines 350-373): release inside try/catch, then 409 if the
\* message mentions 'lock', else 500.  Neither the TypeError of null.release()
\* nor redlock's "unable to achieve a quorum" message mentions it.
OuterCatch(mentionsLock) ==
  IF mentionsLock THEN "REJECTED_NO_LOCK" ELSE "ERROR_500"

\* faulty variant of Finish (sensitivity of C8): the response without the
\* release
FinishNoRelease(s, o) ==
  /\ pc' = [pc EXCEPT ![s] = "done"]
  /\ outcome' = [outcome EXCEPT ![s] = o]
  /\ UNCHANGED lockVars

\* `if (lock) await lock.release(); return res.status(..)`: releasing a lease
\* the store no longer holds throws, and the throw ends in the outer catch.
Finish(s, o) ==
  /\ pc' = [pc EXCEPT ![s] = "done"]
  /\ IF lease[s] = "none"
     THEN outcome' = [outcome EXCEPT ![s] = o] /\ UNCHANGED lockVars
     ELSE IF lease[s] = "held"
          THEN outcome' = [outcome EXCEPT ![s] = o] /\ Released(s)
          ELSE outcome' = [outcome EXCEPT ![s] = OuterCatch(FALSE)]
               /\ UNCHANGED lockVars

\* line 252, `await lock.release()` with no null check: with lock === null it
\* throws a TypeError, which ends in the outer catch.
FinishUnguarded(s, o) ==
  IF lease[s] = "none"
  THEN /\ pc' = [pc EXCEPT ![s] = "done"]
       /\ outcome' = [outcome EXCEPT ![s] = OuterCatch(FALSE)]
       /\ UNCHANGED lockVars
  ELSE Finish(s, o)

\* procesarPago's test for a payment timeout: error.code === 'ECONNABORTED'
\* or the message includes 'timeout' (opossum's is 'Timed out after ..ms')
EsTimeoutPago(e) == e = "ECONNABORTED"

\* ------------------------------------------- continuations of a POST call
contVars == <<pc, outcome, liberado, lockStore, lease, reservas, cpc, cout>>

\* POST /reservas after the reservar call (lines 249-265)
AfterReservar(s, res) ==
  IF res = "ok"
  THEN pc' = [pc EXCEPT ![s] = "pago"] /\ UNCHANGED <<outcome, liberado, lockVars>>
  ELSE /\ FinishUnguarded(s, IF res = "409" THEN "REJECTED_INVENTORY_RACE"
                                            ELSE "ERROR_RESERVING_500")
       /\ UNCHANGED liberado

\* POST /reservas after the compensating liberar call (lines 280-303): its
\* failure is logged only
AfterCompensation(s, res) ==
  /\ liberado' = [liberado EXCEPT ![s] = IF res = "ok" THEN "ok" ELSE "CRITICAL"]
  /\ Finish(s, IF EsTimeoutPago(errPago[s]) THEN "CANCELLED_PAYMENT_TIMEOUT"
                                            ELSE "CANCELLED_PAYMENT_FAILED")

\* DELETE /reservas/:id after the liberar call (lines 396-413)
AfterCancelLiberar(c, res) ==
  /\ cpc' = [cpc EXCEPT ![c] = "done"]
  /\ IF res = "ok"
     THEN /\ reservas' = [reservas EXCEPT ![ctarget[c]] = "cancelada"]
          /\ cout' = [cout EXCEPT ![c] = 200]
     ELSE /\ cout' = [cout EXCEPT ![c] = 500]
          /\ UNCHANGED reservas

Cont(c, res) ==
  IF c \in Sagas
  THEN /\ IF pc[c] = "reservar" THEN AfterReservar(c, res)
                                ELSE AfterCompensation(c, res)
       /\ UNCHANGED <<reservas, cpc, cout>>
  ELSE /\ AfterCancelLiberar(c, res)
       /\ UNCHANGED <<pc, outcome, liberado, lockVars>>

\* --------------------------------- the resilient client: retry under timeout
SetInv(st) ==
  /\ redisConnected' = st.rc
  /\ redisInv' = st.redis
  /\ memInv' = st.mem
  /\ UNCHANGED redisUp

\* retryWithBackoff, attempt resolved: the breaker resolves the caller, if it
\* still waits
AfterSuccess(c) ==
  /\ call' = [call EXCEPT ![c] = NoCall]
  /\ IF call[c].waiting THEN Cont(c, "ok") ELSE UNCHANGED contVars

\* retryWithBackoff, attempt rejected: sleep and go round again while
\* attempt < maxRetries, else throw lastError (to the caller, if it waits)
AfterFailure(c, err) ==
  IF call[c].att < InventarioRetries
  THEN /\ call' = [call EXCEPT ![c].att = @ + 1, ![c].rd = -1,
                               ![c].refused = @ \/ (err = "409" /\ call[c].waiting)]
       /\ UNCHANGED contVars
  ELSE /\ call' = [call EXCEPT ![c] = NoCall]
       /\ IF call[c].waiting THEN Cont(c, err) ELSE UNCHANGED contVars

\* an attempt whose turn comes after the breaker's timeout runs only once the
\* caller was rejected
CanStart(c) == call[c].waiting => ~StartsAfterTimeout(call[c].att)

callFrame == <<notSys, totalUnits, redlockUp, notificado, asientos, fromCache, errPago, cache, tx, ctarget>>

\* one attempt of POST /inventario/:id/reservar: the handler runs; its answer
\* arrives, or is lost to the client (which then has timed out)
AttemptReservar(c) ==
  /\ call[c].kind = "reservar"
  /\ CanStart(c)
  /\ LET r == ReservarHandler(Inv, redisUp, call[c].n) IN
       /\ SetInv(r.st)
       /\ \/ /\ IF r.status = 200 THEN AfterSuccess(c) ELSE AfterFailure(c, "409")
             /\ UNCHANGED fault
          \/ /\ ~call[c].waiting
             /\ AfterFailure(c, "neterr")
             /\ fault' = TRUE
  /\ UNCHANGED callFrame

\* one attempt of POST /inventario/:id/liberar, up to the Redis read
AttemptLiberarGet(c) ==
  /\ call[c].kind = "liberar"
  /\ call[c].rd = -1
  /\ CanStart(c)
  /\ LET g == LiberarGet(Inv, redisUp, call[c].n) IN
       /\ SetInv(g.st)
       /\ IF g.rd # -1
          THEN call' = [call EXCEPT ![c].rd = g.rd] /\ UNCHANGED <<contVars, fault>>
          ELSE \/ AfterSuccess(c) /\ UNCHANGED fault
               \/ /\ ~call[c].waiting
                  /\ AfterFailure(c, "neterr")
                  /\ fault' = TRUE
  /\ UNCHANGED callFrame

\* ... and from the Redis write to the answer
AttemptLiberarSet(c) ==
  /\ call[c].kind = "liberar"
  /\ call[c].rd # -1
  /\ SetInv(LiberarSet(Inv, redisUp, call[c].n, call[c].rd))
  /\ \/ AfterSuccess(c) /\ UNCHANGED fault
     \/ /\ ~call[c].waiting
        /\ AfterFailure(c, "neterr")
        /\ fault' = TRUE
  /\ UNCHANGED callFrame

\* an attempt that never reaches the handler (connection refused, or the
\* service not answering)
AttemptNetFail(c) ==
  /\ call[c].kind # "none"
  /\ call[c].rd = -1
  /\ CanStart(c)
  /\ AfterFailure(c, "neterr")
  /\ fault' = TRUE
  /\ UNCHANGED <<invVars, callFrame>>

\* the breaker's timeout fires while the retry loop is still at work: the
\* caller is rejected, the loop goes on.  It fires during the sleep before an
\* attempt that starts too late, or earlier when the service is slow.
CallTimeout(c) ==
  /\ call[c].kind # "none"
  /\ call[c].waiting
  /\ call' = [call EXCEPT ![c].waiting = FALSE]
  /\ Cont(c, "timeout")
  /\ fault' = (fault \/ ~StartsAfterTimeout(call[c].att))
  /\ UNCHANGED <<invVars, callFrame>>

\* the inventory service loses its Redis connection (ioredis does not
\* reconnect: retryStrategy returns null)
RedisDown ==
  /\ redisUp
  /\ redisUp' = FALSE
  /\ fault' = TRUE
  /\ UNCHANGED <<notSys, totalUnits, redisConnected, redisInv, memInv, redlockUp, lockVars,
                 sagaVars, cache, call, tx, reservas, cancelVars>>

\* ----------------------------------------------------- POST /reservas saga
\* faulty variant of LockFree (sensitivity of C5): the key is set whether or
\* not it is present
LockFreeAlways == TRUE

\* redlock.acquire([lockKey], 10000): the key is set only if absent
LockFree == lockStore = 0

\* lines 189-205: the request arrives and the lock is acquired; or every
\* retry of acquire found the key held and acquire throws; or redlock is
\* null and the saga proceeds without a lock
Acquire(s) ==
  /\ pc[s] = "init"
  /\ \E n \in 1..MaxAsientos : asientos' = [asientos EXCEPT ![s] = n]
  /\ IF redlockUp
     THEN IF LockFree
          THEN /\ lockStore' = s
               /\ lease' = [lease EXCEPT ![s] = "held"]
               /\ pc' = [pc EXCEPT ![s] = "check"]
               /\ UNCHANGED outcome
          ELSE /\ pc' = [pc EXCEPT ![s] = "done"]
               /\ outcome' = [outcome EXCEPT ![s] = OuterCatch(FALSE)]
               /\ UNCHANGED lockVars
     ELSE /\ pc' = [pc EXCEPT ![s] = "check"]
          /\ UNCHANGED <<outcome, lockVars>>
  /\ UNCHANGED <<notSys, totalUnits, invVars, redlockUp, fromCache, errPago, liberado,
                 notificado, cache, call, tx, reservas, cancelVars>>
  /\ UNCHANGED fault

\* faulty variant of Insuficiente (sensitivity of C32): the comparison off by
\* one
InsuficienteOffByOne(v, n) == v < 0 \/ v < n - 1

\* line 217: !inventario.disponible || inventario.asientosDisponibles < asientos
\* (disponible is asientosDisponibles > 0)
Insuficiente(v, n) == v <= 0 \/ v < n

\* lines 207-242 once consultarInventario returned v: reject, or go on to
\* send the reservar request
Decide(s, v, stale) ==
  /\ fromCache' = [fromCache EXCEPT ![s] = stale]
  /\ IF Insuficiente(v, asientos[s])
     THEN /\ Finish(s, "REJECTED_UNAVAILABLE")
          /\ UNCHANGED call
     ELSE /\ pc' = [pc EXCEPT ![s] = "reservar"]
          /\ call' = [call EXCEPT ![s] = StartCall("reservar", asientos[s])]
          /\ UNCHANGED <<outcome, lockVars>>

\* consultarInventario, live read: the answer is cached
ConsultLive(s) ==
  /\ pc[s] = "check"
  /\ LET g == GetHandler(Inv, redisUp) IN
       /\ SetInv(g.st)
       /\ cache' = g.disponibles
       /\ Decide(s, g.disponibles, FALSE)
  /\ UNCHANGED <<notSys, totalUnits, redlockUp, asientos, errPago, liberado, notificado,
                 tx, reservas, cancelVars>>
  /\ UNCHANGED fault

\* consultarInventario, live read failed: the cached entry, or the throw
\* that ends in 503
ConsultFail(s) ==
  /\ pc[s] = "check"
  /\ IF cache # -1
     THEN Decide(s, cache, TRUE)
     ELSE /\ Finish(s, "INVENTORY_UNAVAILABLE_503")
          /\ UNCHANGED <<fromCache, call>>
  /\ UNCHANGED <<notSys, totalUnits, invVars, redlockUp, asientos, errPago, liberado,
                 notificado, cache, tx, reservas, cancelVars>>
  /\ fault' = TRUE

\* procesarPago resolved (lines 272-322): the transaction exists and the
\* reservation is stored as confirmada
PagoOk(s) ==
  /\ pc[s] = "pago"
  /\ tx' = [tx EXCEPT ![s] = "completado"]
  /\ reservas' = [reservas EXCEPT ![s] = "confirmada"]
  /\ pc' = [pc EXCEPT ![s] = "notif"]
  /\ UNCHANGED <<notSys, totalUnits, invVars, redlockUp, lockVars, asientos, fromCache,
                 errPago, liberado, outcome, notificado, cache, call, cancelVars>>
  /\ UNCHANGED fault

\* procesarPago rejected (lines 275-283): a decline (402), or the breaker's
\* timeout, with the charge made or not; the compensating liberar is sent
PagoFail(s) ==
  /\ pc[s] = "pago"
  /\ \/ /\ errPago' = [errPago EXCEPT ![s] = "HTTP402"]
        /\ UNCHANGED <<tx, fault>>
     \/ /\ errPago' = [errPago EXCEPT ![s] = "ETIMEDOUT"]
        /\ fault' = TRUE
        /\ \E charged \in BOOLEAN :
             tx' = [tx EXCEPT ![s] = IF charged THEN "completado" ELSE @]
  /\ pc' = [pc EXCEPT ![s] = "liberar"]
  /\ call' = [call EXCEPT ![s] = StartCall("liberar", asientos[s])]
  /\ UNCHANGED <<notSys, totalUnits, invVars, redlockUp, lockVars, asientos, fromCache,
                 liberado, outcome, notificado, cache, reservas, cancelVars>>

\* lines 326-348: the notification call ends: sent, or failed (an error, the
\* breaker's timeout or the breaker open; the client's fallback and the catch
\* both leave the saga on its way); then release and 201
Notify(s, sent) ==
  /\ pc[s] = "notif"
  /\ notificado' = [notificado EXCEPT ![s] = IF sent THEN "sent" ELSE "failed"]
  /\ Finish(s, "CONFIRMED")
  /\ UNCHANGED <<notSys, totalUnits, invVars, redlockUp, asientos, fromCache, errPago,
                 liberado, cache, call, tx, reservas, cancelVars>>
  /\ fault' = (fault \/ ~sent)

\* The lease (10000 ms) runs out under its holder.  The availability read and
\* the reservar call end within their breaker timeouts (3000 ms each), so the
\* lease can run out only from the payment call (timeout 25000 ms) on.
LeaseExpire(s) ==
  /\ lease[s] = "held"
  /\ pc[s] \in {"pago", "liberar", "notif"}
  /\ lockStore' = IF lockStore = s THEN 0 ELSE lockStore
  /\ lease' = [lease EXCEPT ![s] = "expired"]
  /\ UNCHANGED <<notSys, totalUnits, invVars, redlockUp, sagaVars, cache, call, tx,
                 reservas, cancelVars>>
  /\ fault' = TRUE

\* ------------------------------------------------------ DELETE /reservas/:id
\* lines 376-389: the reservation is looked up
CancelStart(c, r) ==
  /\ cpc[c] = "idle"
  /\ reservas[r] # "none"
  /\ ctarget' = [ctarget EXCEPT ![c] = r]
  /\ IF reservas[r] = "cancelada"
     THEN cpc' = [cpc EXCEPT ![c] = "done"] /\ cout' = [cout EXCEPT ![c] = 409]
     ELSE cpc' = [cpc EXCEPT ![c] = "refund"] /\ UNCHANGED cout
  /\ UNCHANGED <<notSys, totalUnits, invVars, redlockUp, lockVars, sagaVars, cache, call,
                 tx, reservas>>
  /\ UNCHANGED fault

\* POST /pagos/reembolsar up to its sleep(500): a transaction already
\* reembolsado is refused (409), which fails the DELETE with 500
RefundCheck(c) ==
  /\ cpc[c] = "refund"
  /\ IF tx[ctarget[c]] = "reembolsado"
     THEN cpc' = [cpc EXCEPT ![c] = "done"] /\ cout' = [cout EXCEPT ![c] = 500]
     ELSE cpc' = [cpc EXCEPT ![c] = "refunding"] /\ UNCHANGED cout
  /\ UNCHANGED <<notSys, totalUnits, invVars, redlockUp, lockVars, sagaVars, cache, call,
                 tx, reservas, ctarget>>
  /\ UNCHANGED fault

\* ... and after the sleep: the transaction is marked; the DELETE goes on to
\* release the seats (lines 391-398)
RefundCommit(c) ==
  /\ cpc[c] = "refunding"
  /\ tx' = [tx EXCEPT ![ctarget[c]] = "reembolsado"]
  /\ cpc' = [cpc EXCEPT ![c] = "liberar"]
  /\ call' = [call EXCEPT ![c] = StartCall("liberar", asientos[ctarget[c]])]
  /\ UNCHANGED <<notSys, totalUnits, invVars, redlockUp, lockVars, sagaVars, cache,
                 reservas, ctarget, cout>>
  /\ UNCHANGED fault

\* ------------------------------------------------------------------- Spec
Next ==
  \/ \E s \in Sagas : Acquire(s)
  \/ \E s \in Sagas : ConsultLive(s)
  \/ \E s \in Sagas : ConsultFail(s)
  \/ \E s \in Sagas : PagoOk(s)
  \/ \E s \in Sagas : PagoFail(s)
  \/ \E s \in Sagas, sent \in BOOLEAN : Notify(s, sent)
  \/ \E s \in Sagas : LeaseExpire(s)
  \/ \E c \in Callers : AttemptReservar(c)
  \/ \E c \in Callers : AttemptLiberarGet(c)
  \/ \E c \in Callers : AttemptLiberarSet(c)
  \/ \E c \in Callers : AttemptNetFail(c)
  \/ \E c \in Callers : CallTimeout(c)
  \/ \E c \in Cancels, r \in Sagas : CancelStart(c, r)
  \/ \E c \in Cancels : RefundCheck(c)
  \/ \E c \in Cancels : RefundCommit(c)
  \/ RedisDown

Spec == Init /\ [][Next]_vars

\* --------------------------------------------------------------- Bulkhead
\* _execute(fn) up to `await fn()`: the counter is incremented and fn started
Started(t, cc, ts) == [cc |-> cc + 1, ts |-> [ts EXCEPT ![t] = "running"]]

\* faulty variant of Saturated (sensitivity of C9): > in place of >=
SaturatedOffByOne(cc) == cc > MaxConcurrent

\* execute(fn): queue the task when currentConcurrent >= maxConcurrent, else
\* run it
Saturated(cc) == cc >= MaxConcurrent

Execute(t) ==
  /\ tstate[t] = "new"
  /\ IF Saturated(currentConcurrent)
     THEN /\ queue' = Append(queue, t)
          /\ tstate' = [tstate EXCEPT ![t] = "queued"]
          /\ UNCHANGED currentConcurrent
     ELSE /\ currentConcurrent' = Started(t, currentConcurrent, tstate).cc
          /\ tstate' = Started(t, currentConcurrent, tstate).ts
          /\ UNCHANGED queue
  /\ UNCHANGED espera
  /\ UNCHANGED notBulk

\* faulty variant of Shift (sensitivity of C35): the newest waiting task is
\* taken
Pop(q) == [task |-> q[Len(q)], rest |-> SubSeq(q, 1, Len(q) - 1)]

\* this.queue.shift(): the oldest waiting task, and the queue without it
Shift(q) == [task |-> Head(q), rest |-> Tail(q)]

\* faulty variant of CanDequeue (sensitivity of C11): the queue is left alone
\* when a task completes
CanDequeueNever(q, cc) == FALSE

\* _processQueue(): the head of the queue is started if there is room
CanDequeue(q, cc) == Len(q) > 0 /\ cc < MaxConcurrent

\* the finally of _execute: fn() settled (resolved or rejected), the counter is
\* decremented and _processQueue() runs
Complete(t, ok) ==
  /\ tstate[t] = "running"
  /\ LET cc == currentConcurrent - 1
         ts == [tstate EXCEPT ![t] = IF ok THEN "resolved" ELSE "rejected"]
     IN IF CanDequeue(queue, cc)
        THEN /\ currentConcurrent' = Started(Shift(queue).task, cc, ts).cc
             /\ tstate' = Started(Shift(queue).task, cc, ts).ts
             /\ queue' = Shift(queue).rest
        ELSE /\ currentConcurrent' = cc
             /\ tstate' = ts
             /\ UNCHANGED queue
  /\ UNCHANGED espera
  /\ UNCHANGED notBulk

\* a time unit passes for the tasks in the queue (counted up to one unit past
\* the design's queueTimeout); the Bulkhead has no timer of its own
Tick ==
  /\ \E t \in Tasks : tstate[t] = "queued" /\ espera[t] <= QueueTimeout
  /\ espera' = [t \in Tasks |->
                  IF tstate[t] = "queued" /\ espera[t] <= QueueTimeout
                  THEN espera[t] + 1 ELSE espera[t]]
  /\ UNCHANGED <<currentConcurrent, queue, tstate>>
  /\ UNCHANGED notBulk

InitBulkhead ==
  /\ SysIdle
  /\ BulkheadInit
  /\ IcIdle
  /\ BrIdle
  /\ IvIdle
  /\ GwIdle
  /\ LsIdle
  /\ DlIdle
  /\ AdIdle
  /\ RtIdle
  /\ PgIdle

NextBulkhead ==
  \/ \E t \in Tasks : Execute(t)
  \/ \E t \in Tasks, ok \in BOOLEAN : Complete(t, ok)
  \/ Tick

SpecBulkhead == InitBulkhead /\ [][NextBulkhead]_vars

\* every task admitted to run eventually completes (the hypothesis of C36)
SpecBulkheadFair ==
  /\ InitBulkhead
  /\ [][NextBulkhead]_vars
  /\ \A t \in Tasks : WF_vars(\E ok \in BOOLEAN : Complete(t, ok))

\* ------------------------------------------------------- retryWithBackoff
\* the largest maxRetries tried (the default is 3; the clients pass 1, 2, 3)
MaxRetries == 3

\* how one invocation of fn (client.request) can end: resolved; rejected by a
\* transient fault (timeout, connection refused); rejected because the answer
\* is an HTTP 4xx (axios rejects every status outside 2xx): a business
\* rejection such as 409 'Insufficient seats' or 402, or a validation
\* failure (400)
FnResults == {"ok", "transient", "rejection", "validation"}

\* faulty variant of RtLoops (sensitivity of C19): one round too many
RtLoopsOnceMore(attempt, max) == attempt <= max + 1

\* the loop condition, attempt <= maxRetries
RtLoops(attempt, max) == attempt <= max

\* the sleep condition, attempt < maxRetries
RtSleeps(attempt, max) == attempt < max

\* attempt++ and the loop test: another round, or `throw lastError`
RtNextRound ==
  /\ rtAttempt' = rtAttempt + 1
  /\ rtPc' = IF RtLoops(rtAttempt + 1, rtMax) THEN "call" ELSE "thrown"

\* `return await fn()` and its catch: fn is invoked and ends as r.  While the
\* loop runs rtResult holds lastError.
RtInvoke(r) ==
  /\ rtPc = "call"
  /\ rtLog' = Append(rtLog, r)
  /\ rtResult' = <<r, rtAttempt>>
  /\ IF r = "ok"
     THEN rtPc' = "returned" /\ UNCHANGED rtAttempt
     ELSE IF RtSleeps(rtAttempt, rtMax)
          THEN rtPc' = "sleep" /\ UNCHANGED rtAttempt
          ELSE RtNextRound
  /\ UNCHANGED <<rtMax, rtSlept>>
  /\ UNCHANGED notRt

\* `await sleep(delay)` is over
RtWake ==
  /\ rtPc = "sleep"
  /\ rtSlept' = rtSlept + RetryDelay(rtAttempt)
  /\ RtNextRound
  /\ UNCHANGED <<rtMax, rtLog, rtResult>>
  /\ UNCHANGED notRt

\* retryWithBackoff(fn, {maxRetries}) is called
InitRetry ==
  /\ SysIdle
  /\ BulkheadInit
  /\ IcIdle
  /\ BrIdle
  /\ IvIdle
  /\ GwIdle
  /\ LsIdle
  /\ DlIdle
  /\ AdIdle
  /\ PgIdle
  /\ rtMax \in 0..MaxRetries
  /\ rtAttempt = 0
  /\ rtPc = "call"
  /\ rtLog = <<>>
  /\ rtResult = <<"none", 0>>
  /\ rtSlept = 0

NextRetry ==
  \/ \E r \in FnResults : RtInvoke(r)
  \/ RtWake

SpecRetry == InitRetry /\ [][NextRetry]_vars

\* ------------------------------------------- the payment step, with time
\* payment service: the bounds of its processing sleep
ProcMin == 500
ProcMax == 1500
\* pagosClient: retries, and the timeout of its breaker (and of axios)
PagosRetries == 1
PagosTimeout == 25000
\* redlock.acquire([lockKey], 10000)
LeaseMs == 10000

\* the response once the payment step is over: a lease that ran out during
\* the payment call makes lock.release() throw (see Finish)
PgFinish(o) ==
  IF pgLock /\ pgElapsed' >= LeaseMs THEN OuterCatch(FALSE) ELSE o

\* the breaker's timer fires before the payment service has answered
PgTimedOut ==
  /\ pgElapsed' = PagosTimeout
  /\ pgErr' = "ETIMEDOUT"
  /\ pgPc' = "compensar"
  /\ UNCHANGED pgAttempt

\* one POST /pagos/procesar of pagosClient's retry loop: the service answers
\* after its latency and its processing sleep, approving or declining (402);
\* a declined attempt is tried again after the backoff delay; the breaker's
\* timer, set when procesarPago fired the breaker, rejects procesarPago at
\* PagosTimeout if no answer has settled the call by then
PgAttempt(proc, declined) ==
  /\ pgPc = "pago"
  /\ LET t == pgLatencia + proc
         at == pgElapsed + t
     IN /\ pgTiempo' = IF pgTiempo = -1 THEN t ELSE pgTiempo
        /\ IF at >= PagosTimeout
           THEN PgTimedOut
           ELSE IF ~declined
           THEN pgElapsed' = at /\ pgPc' = "confirmar" /\ UNCHANGED <<pgAttempt, pgErr>>
           ELSE IF pgAttempt < PagosRetries
           THEN /\ pgElapsed' = at + RetryDelay(pgAttempt)
                /\ pgAttempt' = pgAttempt + 1
                /\ UNCHANGED <<pgPc, pgErr>>
           ELSE /\ pgElapsed' = at
                /\ pgErr' = "HTTP402"
                /\ pgPc' = "compensar"
                /\ UNCHANGED pgAttempt
  /\ UNCHANGED <<pgLock, pgLatencia, pgOutcome, pgUnits, pgInicial>>
  /\ UNCHANGED notPg

\* lines 275-304: the compensating liberar (its failure is logged only), the
\* release and the 408 or 402 response
PgCompensar(ok) ==
  /\ pgPc = "compensar"
  /\ pgUnits' = IF ok THEN pgUnits + 1 ELSE pgUnits
  /\ pgPc' = "done"
  /\ UNCHANGED pgElapsed
  /\ pgOutcome' = PgFinish(IF EsTimeoutPago(pgErr) THEN "CANCELLED_PAYMENT_TIMEOUT"
                                                   ELSE "CANCELLED_PAYMENT_FAILED")
  /\ UNCHANGED <<pgLock, pgLatencia, pgAttempt, pgTiempo, pgErr, pgInicial>>
  /\ UNCHANGED notPg

\* lines 306-348: the reservation is stored, the release and the 201 response
PgConfirmar ==
  /\ pgPc = "confirmar"
  /\ pgPc' = "done"
  /\ UNCHANGED pgElapsed
  /\ pgOutcome' = PgFinish("CONFIRMED")
  /\ UNCHANGED <<pgLock, pgLatencia, pgAttempt, pgTiempo, pgErr, pgUnits, pgInicial>>
  /\ UNCHANGED notPg

\* a saga has decremented the inventory by one seat and calls procesarPago
InitPago ==
  /\ SysIdle
  /\ BulkheadInit
  /\ IcIdle
  /\ BrIdle
  /\ IvIdle
  /\ GwIdle
  /\ LsIdle
  /\ DlIdle
  /\ AdIdle
  /\ RtIdle
  /\ pgLock \in BOOLEAN
  /\ pgLatencia \in {0, LatenciaMs, LatenciaLarga}
  /\ pgPc = "pago"
  /\ pgAttempt = 0
  /\ pgElapsed = 0
  /\ pgTiempo = -1
  /\ pgErr = ""
  /\ pgOutcome = ""
  /\ pgInicial \in 1..MaxUnits
  /\ pgUnits = pgInicial - 1

NextPago ==
  \/ \E proc \in {ProcMin, ProcMax}, declined \in BOOLEAN : PgAttempt(proc, declined)
  \/ \E ok \in BOOLEAN : PgCompensar(ok)
  \/ PgConfirmar

SpecPago == InitPago /\ [][NextPago]_vars

\* ----------------------------------------------------- consultarInventario
InventarioCacheTtl == 600000

\* the instants at which Date.now() is read
Instants == {0, 1, InventarioCacheTtl - 1, InventarioCacheTtl, InventarioCacheTtl + 1,
             2 * InventarioCacheTtl}

\* faulty variant of CacheValid (sensitivity of C14): <= in place of <
CacheValidInclusive(age) == age <= InventarioCacheTtl

\* `if (age < INVENTARIO_CACHE_TTL)`
CacheValid(age) == age < InventarioCacheTtl

\* lines 67-77: the live read answered v; the entry of the id is replaced
IcLive(e, v) ==
  /\ inventarioCache' = [inventarioCache EXCEPT ![e] = [data |-> v, timestamp |-> icNow]]
  /\ icResult' = [evento |-> e, kind |-> "live", data |-> v, fromCache |-> FALSE,
                  at |-> icNow]
  /\ UNCHANGED icNow
  /\ UNCHANGED notIc

\* lines 78-98: the live read threw (breaker open, timeout, retries used up);
\* the entry of the id if there is one and it is young enough, else the throw
IcFallback(e) ==
  /\ LET cached == inventarioCache[e] IN
       IF cached # NoEntry /\ CacheValid(icNow - cached.timestamp)
       THEN icResult' = [evento |-> e, kind |-> "cached", data |-> cached.data,
                         fromCache |-> TRUE, at |-> icNow]
       ELSE icResult' = [evento |-> e, kind |-> "thrown", data |-> -1,
                         fromCache |-> FALSE, at |-> icNow]
  /\ UNCHANGED <<icNow, inventarioCache>>
  /\ UNCHANGED notIc

\* time passes
IcTick(t) ==
  /\ t > icNow
  /\ icNow' = t
  /\ UNCHANGED <<inventarioCache, icResult>>
  /\ UNCHANGED notIc

InitCache ==
  /\ SysIdle
  /\ BulkheadInit
  /\ RtIdle
  /\ PgIdle
  /\ IcIdle
  /\ BrIdle
  /\ IvIdle
  /\ GwIdle
  /\ LsIdle
  /\ DlIdle
  /\ AdIdle

NextCache ==
  \/ \E e \in Eventos, v \in 0..MaxUnits : IcLive(e, v)
  \/ \E e \in Eventos : IcFallback(e)
  \/ \E t \in Instants : IcTick(t)

SpecCache == InitCache /\ [][NextCache]_vars

\* -------------------------------------------------------- circuit breaker
\* inventarioClient's breakerOptions
ErrorThresholdPercentage == 50
InventarioResetTimeout == 15000
VolumeThreshold == 3

BrInFlight == {c \in BrCallIds : brCalls[c] = "inflight"}
BrMade == {c \in BrCallIds : brCalls[c] # "new"}

\* faulty variant of BrAdmits (sensitivity of C13): half-open admits every call
BrAdmitsAlways(st, pending) == st # "open"

\* fire(): the call goes through when the breaker is closed, or half-open
\* with its probe still to be admitted
BrAdmits(st, pending) == st = "closed" \/ pending

\* faulty variant of BrTrips (sensitivity of C12): no minimum volume
BrTripsNoVolume(fires, failures, half) ==
  failures * 100 > ErrorThresholdPercentage * fires \/ half

\* on a failure: the breaker opens when half-open, or when the window holds
\* at least volumeThreshold calls and its failure ratio exceeds the threshold
BrTrips(fires, failures, half) ==
  /\ ~(fires < VolumeThreshold /\ ~half)
  /\ (failures * 100 > ErrorThresholdPercentage * fires \/ half)

\* open(): the reset timer is started
BrOpen ==
  /\ brState' = "open"
  /\ brPendingClose' = FALSE
  /\ brResetTimer' = TRUE

\* breaker.fire(config): admitted, the wrapped retry loop is invoked; else
\* the call is rejected ('Breaker is open') without invoking it.  The calls
\* are numbered in the order of their fire().
BrFire(c) ==
  /\ brCalls[c] = "new"
  /\ c > 1 => brCalls[c - 1] # "new"
  /\ brFires' = brFires + 1
  /\ IF BrAdmits(brState, brPendingClose)
     THEN /\ brCalls' = [brCalls EXCEPT ![c] = "inflight"]
          /\ brPendingClose' = FALSE
          /\ brProbe' = IF brState = "halfOpen" THEN c ELSE brProbe
          /\ brContacts' = brContacts + 1
     ELSE /\ brCalls' = [brCalls EXCEPT ![c] = "rejected"]
          /\ UNCHANGED <<brPendingClose, brProbe, brContacts>>
  /\ UNCHANGED <<brState, brResetTimer, brFailures>>
  /\ UNCHANGED notBr

\* the wrapped function resolved: a success in half-open closes the breaker
BrSucceed(c) ==
  /\ brCalls[c] = "inflight"
  /\ brCalls' = [brCalls EXCEPT ![c] = "ok"]
  /\ IF brState = "halfOpen"
     THEN /\ brState' = "closed"
          /\ brPendingClose' = FALSE
          /\ brResetTimer' = FALSE
     ELSE UNCHANGED <<brState, brPendingClose, brResetTimer>>
  /\ UNCHANGED <<brFires, brFailures, brProbe, brContacts>>
  /\ UNCHANGED notBr

\* the wrapped function rejected, or the breaker's timeout fired
BrFail(c) ==
  /\ brCalls[c] = "inflight"
  /\ brCalls' = [brCalls EXCEPT ![c] = "failed"]
  /\ brFailures' = brFailures + 1
  /\ IF brState # "open" /\ BrTrips(brFires, brFailures + 1, brState = "halfOpen")
     THEN BrOpen
     ELSE UNCHANGED <<brState, brPendingClose, brResetTimer>>
  /\ UNCHANGED <<brFires, brProbe, brContacts>>
  /\ UNCHANGED notBr

\* resetTimeout after open(): half-open, one probe to be admitted.  With the
\* breaker's timeout below resetTimeout every call fired before open() has
\* settled by then.
BrResetTimeout ==
  /\ brState = "open"
  /\ brResetTimer
  /\ InventarioBreakerTimeout < InventarioResetTimeout => BrInFlight = {}
  /\ brState' = "halfOpen"
  /\ brPendingClose' = TRUE
  /\ brResetTimer' = FALSE
  /\ UNCHANGED <<brFires, brFailures, brCalls, brProbe, brContacts>>
  /\ UNCHANGED notBr

\* the rolling window moves on: its oldest calls leave it, with their
\* failures; the calls in flight are younger than the window
BrRoll(f, x) ==
  /\ f < brFires
  /\ f >= Cardinality(BrInFlight)
  /\ x <= brFailures
  /\ brFires' = f
  /\ brFailures' = x
  /\ UNCHANGED <<brState, brPendingClose, brResetTimer, brCalls, brProbe, brContacts>>
  /\ UNCHANGED notBr

InitBreaker ==
  /\ SysIdle
  /\ BulkheadInit
  /\ RtIdle
  /\ PgIdle
  /\ IcIdle
  /\ BrIdle
  /\ IvIdle
  /\ GwIdle
  /\ LsIdle
  /\ DlIdle
  /\ AdIdle

NextBreaker ==
  \/ \E c \in BrCallIds : BrFire(c)
  \/ \E c \in BrCallIds : BrSucceed(c)
  \/ \E c \in BrCallIds : BrFail(c)
  \/ BrResetTimeout
  \/ \E f \in 0..NumCalls, x \in 0..NumCalls : BrRoll(f, x)

SpecBreaker == InitBreaker /\ [][NextBreaker]_vars

\* ------------------------------------------- inventory service on its own
sagaFrame == <<totalUnits, redlockUp, lockVars, sagaVars, cache, call, tx, reservas,
              cancelVars, fault>>

\* POST /inventario/:eventoId/reservar, from the request to the answer
IvReservar(r) ==
  /\ ivReq[r].kind = "reservar"
  /\ ivReq[r].pc = "new"
  /\ LET h == ReservarHandler(Inv, redisUp, ivReq[r].n) IN
       /\ SetInv(h.st)
       /\ ivReq' = [ivReq EXCEPT ![r].pc = "done", ![r].status = h.status]
  /\ UNCHANGED <<sagaFrame, libVars>>

\* POST /inventario/:eventoId/liberar up to the await of redis.get
IvLiberarGet(r) ==
  /\ ivReq[r].kind = "liberar"
  /\ ivReq[r].pc = "new"
  /\ LET g == LiberarGet(Inv, redisUp, ivReq[r].n) IN
       /\ SetInv(g.st)
       /\ ivReq' = IF g.rd # -1
                   THEN [ivReq EXCEPT ![r].pc = "read", ![r].rd = g.rd]
                   ELSE [ivReq EXCEPT ![r].pc = "done", ![r].status = 200]
  /\ UNCHANGED <<sagaFrame, libVars>>

\* ... and from redis.set to the answer
IvLiberarSet(r) ==
  /\ ivReq[r].pc = "read"
  /\ SetInv(LiberarSet(Inv, redisUp, ivReq[r].n, ivReq[r].rd))
  /\ ivReq' = [ivReq EXCEPT ![r].pc = "done", ![r].status = 200]
  /\ UNCHANGED <<sagaFrame, libVars>>

\* the service has started with its inventory written; requests arrive
InitInventario ==
  /\ totalUnits \in 1..MaxUnits
  /\ redisUp \in BOOLEAN
  /\ redisConnected = redisUp
  /\ redisInv = totalUnits
  /\ memInv = totalUnits
  /\ SagasIdle
  /\ BulkheadInit
  /\ RtIdle
  /\ PgIdle
  /\ IcIdle
  /\ BrIdle
  /\ GwIdle
  /\ LsIdle
  /\ DlIdle
  /\ AdIdle
  /\ ivReq \in [ReqIds -> [kind : {"reservar", "liberar"}, n : 1..MaxUnits, pc : {"new"},
                           rd : {-1}, status : {0}]]

NextInventario ==
  \/ \E r \in ReqIds : IvReservar(r)
  \/ \E r \in ReqIds : IvLiberarGet(r)
  \/ \E r \in ReqIds : IvLiberarSet(r)
  \/ RedisDown

SpecInventario == InitInventario /\ [][NextInventario]_vars

\* ------------------------------------------- api-gateway: POST /api/reservas
\* One request received by the gateway. reservasClient.post is
\* breaker.fire(retryWithBackoff(client.request)): every error of an attempt,
\* an error answer of the saga or the axios timeout, is followed by a sleep
\* and a new POST /reservas, which starts a new saga execution.

\* what one saga execution answers and what it did to inventory and payments:
\* confirmed; payment declined and compensated; no seats; inventory
\* unavailable; decrement failed; confirmed but the release of the expired
\* lease threw
SagaOutcomes ==
  { [status |-> 201, dec |-> TRUE, charged |-> TRUE],
    [status |-> 402, dec |-> TRUE, charged |-> FALSE],
    [status |-> 409, dec |-> FALSE, charged |-> FALSE],
    [status |-> 503, dec |-> FALSE, charged |-> FALSE],
    [status |-> 500, dec |-> FALSE, charged |-> FALSE],
    [status |-> 500, dec |-> TRUE, charged |-> TRUE] }

Duraciones == {DuracionCorta, DuracionLarga}

\* the breaker's timer rejects the fire once GatewayBreakerTimeout has
\* elapsed; the handler then answers 500 while the retry loop goes on
GwAnswered(resp, t) == IF resp = 0 /\ t >= GatewayBreakerTimeout THEN 500 ELSE resp

\* the handler's answer when the retry loop throws an error with this status
\* (0: no response, the axios timeout)
GwErrorStatus(status) == IF status # 0 THEN status ELSE 500

\* the handler passed validation: bulkhead.execute, breaker.fire, first attempt
GwPost ==
  /\ gwPc = "idle"
  /\ gwPc' = "attempt"
  /\ UNCHANGED <<gwAttempt, gwElapsed, gwResp, gwExec>>
  /\ UNCHANGED <<sysVars, bulkVars, rtVars, pgVars, icVars, brVars, ivVars, lsVars, dlVars,
               adVars>>

\* client.request: POST /reservas reaches the reservations service
GwSend(o, d) ==
  /\ gwPc = "attempt"
  /\ (o.status = 500 /\ o.charged) => d = DuracionLarga
  /\ gwExec' = [gwExec EXCEPT ![gwAttempt] =
                  [st |-> "running", status |-> o.status, dec |-> o.dec,
                   charged |-> o.charged, dur |-> d]]
  /\ gwPc' = "flight"
  /\ UNCHANGED <<gwAttempt, gwElapsed, gwResp>>
  /\ UNCHANGED <<sysVars, bulkVars, rtVars, pgVars, icVars, brVars, ivVars, lsVars, dlVars,
               adVars>>

\* the catch block of retryWithBackoff at time t, the error carrying `status`
GwCatch(status, t) ==
  IF gwAttempt < GatewayRetries
  THEN /\ gwPc' = "sleep"
       /\ gwResp' = GwAnswered(gwResp, t)
  ELSE /\ gwPc' = "done"
       /\ gwResp' = IF GwAnswered(gwResp, t) = 0 THEN GwErrorStatus(status)
                    ELSE GwAnswered(gwResp, t)

\* the saga answers before the axios timeout
GwResponse ==
  /\ gwPc = "flight"
  /\ gwExec[gwAttempt].dur < GatewayTimeout
  /\ LET e == gwExec[gwAttempt]
         t == gwElapsed + e.dur
     IN  /\ gwElapsed' = t
         /\ gwExec' = [gwExec EXCEPT ![gwAttempt].st = "done"]
         /\ IF e.status = 201
            THEN /\ gwPc' = "done"
                 /\ gwResp' = IF GwAnswered(gwResp, t) = 0 THEN 201
                              ELSE GwAnswered(gwResp, t)
            ELSE GwCatch(e.status, t)
  /\ UNCHANGED gwAttempt
  /\ UNCHANGED <<sysVars, bulkVars, rtVars, pgVars, icVars, brVars, ivVars, lsVars, dlVars,
               adVars>>

\* axios gives up after GatewayTimeout; the saga execution goes on
GwTimeout ==
  /\ gwPc = "flight"
  /\ gwExec[gwAttempt].dur >= GatewayTimeout
  /\ gwElapsed' = gwElapsed + GatewayTimeout
  /\ GwCatch(0, gwElapsed + GatewayTimeout)
  /\ UNCHANGED <<gwAttempt, gwExec>>
  /\ UNCHANGED <<sysVars, bulkVars, rtVars, pgVars, icVars, brVars, ivVars, lsVars, dlVars,
               adVars>>

\* sleep(delay), then the next iteration of the loop
GwRetry ==
  /\ gwPc = "sleep"
  /\ gwElapsed' = gwElapsed + RetryDelay(gwAttempt)
  /\ gwResp' = GwAnswered(gwResp, gwElapsed + RetryDelay(gwAttempt))
  /\ gwAttempt' = gwAttempt + 1
  /\ gwPc' = "attempt"
  /\ UNCHANGED gwExec
  /\ UNCHANGED <<sysVars, bulkVars, rtVars, pgVars, icVars, brVars, ivVars, lsVars, dlVars,
               adVars>>

\* a saga execution whose caller gave up runs to its end
GwSagaEnds(a) ==
  /\ gwExec[a].st = "running"
  /\ a # gwAttempt \/ gwPc # "flight"
  /\ gwExec' = [gwExec EXCEPT ![a].st = "done"]
  /\ UNCHANGED <<gwPc, gwAttempt, gwElapsed, gwResp>>
  /\ UNCHANGED <<sysVars, bulkVars, rtVars, pgVars, icVars, brVars, ivVars, lsVars, dlVars,
               adVars>>

InitGateway ==
  /\ SysIdle
  /\ BulkheadInit
  /\ RtIdle
  /\ PgIdle
  /\ IcIdle
  /\ BrIdle
  /\ IvIdle
  /\ GwIdle
  /\ LsIdle
  /\ DlIdle
  /\ AdIdle

NextGateway ==
  \/ GwPost
  \/ \E o \in SagaOutcomes, d \in Duraciones : GwSend(o, d)
  \/ GwResponse
  \/ GwTimeout
  \/ GwRetry
  \/ \E a \in GwAttempts : GwSagaEnds(a)

SpecGateway == InitGateway /\ [][NextGateway]_vars

\* the saga executions that decremented inventory or charged a payment
GwEffective == {a \in GwAttempts : gwExec[a].st = "done" /\ (gwExec[a].dec \/ gwExec[a].charged)}

\* --------------------------------------------- the lease on one lock key
\* redlock.acquire([lockKey], LeaseMs): SET key value NX PX LeaseMs, tried
\* again every retryDelay up to retryCount times; release deletes the key if
\* it still holds the client's value; Redis removes the key when its PX time
\* has run out. Time advances in steps of retryDelay (the jitter is left out).
RedlockRetryCount == 10
RedlockRetryDelay == 200

\* faulty variant of LsExpired (sensitivity of C22): a key never expires
LsNeverExpires(ttl) == FALSE

\* Redis: the PX time of the key has run out
LsExpired(ttl) == ttl = 0

\* a request enters the locked section: redlock.acquire starts
LsRequest(c) ==
  /\ lsSt[c] \in {"idle", "failed"}
  /\ lsSt' = [lsSt EXCEPT ![c] = "acquiring"]
  /\ lsTries' = [lsTries EXCEPT ![c] = 0]
  /\ lsReady' = [lsReady EXCEPT ![c] = TRUE]
  /\ UNCHANGED <<lsHolder, lsTtl>>
  /\ UNCHANGED <<sysVars, bulkVars, rtVars, pgVars, icVars, brVars, ivVars, gwVars, dlVars,
               adVars>>

\* one attempt of redlock.acquire: SET NX PX; after retryCount failed retries
\* the acquire rejects
LsAttempt(c) ==
  /\ lsSt[c] = "acquiring"
  /\ lsReady[c]
  /\ IF lsHolder = 0
     THEN /\ lsHolder' = c
          /\ lsTtl' = LeaseMs
          /\ lsSt' = [lsSt EXCEPT ![c] = "holding"]
          /\ lsTries' = [lsTries EXCEPT ![c] = 0]
     ELSE /\ UNCHANGED <<lsHolder, lsTtl>>
          /\ IF lsTries[c] < RedlockRetryCount
             THEN /\ lsTries' = [lsTries EXCEPT ![c] = @ + 1]
                  /\ UNCHANGED lsSt
             ELSE /\ lsTries' = [lsTries EXCEPT ![c] = 0]
                  /\ lsSt' = [lsSt EXCEPT ![c] = "failed"]
  /\ lsReady' = [lsReady EXCEPT ![c] = FALSE]
  /\ UNCHANGED <<sysVars, bulkVars, rtVars, pgVars, icVars, brVars, ivVars, gwVars, dlVars,
               adVars>>

\* lock.release(): the key is deleted if it still holds this client's value
LsRelease(c) ==
  /\ lsSt[c] = "holding"
  /\ lsSt' = [lsSt EXCEPT ![c] = "idle"]
  /\ lsHolder' = IF lsHolder = c THEN 0 ELSE lsHolder
  /\ lsTtl' = IF lsHolder = c THEN 0 ELSE lsTtl
  /\ UNCHANGED <<lsTries, lsReady>>
  /\ UNCHANGED <<sysVars, bulkVars, rtVars, pgVars, icVars, brVars, ivVars, gwVars, dlVars,
               adVars>>

\* the holder crashes or hangs inside the locked section: it never releases
LsCrash(c) ==
  /\ lsSt[c] = "holding"
  /\ lsSt' = [lsSt EXCEPT ![c] = "crashed"]
  /\ UNCHANGED <<lsHolder, lsTtl, lsTries, lsReady>>
  /\ UNCHANGED <<sysVars, bulkVars, rtVars, pgVars, icVars, brVars, ivVars, gwVars, dlVars,
               adVars>>

\* retryDelay passes, once every attempt that was due has been made
LsTick ==
  /\ \A c \in LsClients : ~lsReady[c]
  /\ LET left == IF lsTtl > RedlockRetryDelay THEN lsTtl - RedlockRetryDelay ELSE 0
     IN  /\ lsTtl' = left
         /\ lsHolder' = IF LsExpired(left) THEN 0 ELSE lsHolder
  /\ lsReady' = [c \in LsClients |-> lsSt[c] = "acquiring"]
  /\ UNCHANGED <<lsSt, lsTries>>
  /\ UNCHANGED <<sysVars, bulkVars, rtVars, pgVars, icVars, brVars, ivVars, gwVars, dlVars,
               adVars>>

InitLease ==
  /\ SysIdle
  /\ BulkheadInit
  /\ RtIdle
  /\ PgIdle
  /\ IcIdle
  /\ BrIdle
  /\ IvIdle
  /\ GwIdle
  /\ LsIdle
  /\ DlIdle
  /\ AdIdle

NextLease ==
  \/ \E c \in LsClients : LsRequest(c)
  \/ \E c \in LsClients : LsAttempt(c)
  \/ \E c \in LsClients : LsRelease(c)
  \/ \E c \in LsClients : LsCrash(c)
  \/ LsTick

\* time passes and a started acquire makes its attempts
SpecLease ==
  /\ InitLease
  /\ [][NextLease]_vars
  /\ WF_vars(LsTick)
  /\ \A c \in LsClients : WF_vars(LsAttempt(c))

\* --------------------------------------- the availability check of a saga
\* POST /reservas up to the decision of line 217, in a service that has run
\* for a while: earlier reservations hold seats, and inventarioCache may hold
\* the answer of an earlier read.
InitDisponibilidad ==
  /\ totalUnits \in 1..MaxUnits
  /\ redisUp \in BOOLEAN
  /\ redisConnected = redisUp
  /\ redisInv \in 0..totalUnits
  /\ memInv = redisInv
  /\ redlockUp \in BOOLEAN
  /\ lockStore = 0
  /\ lease = [s \in Sagas |-> "none"]
  /\ pc = [s \in Sagas |-> "init"]
  /\ asientos = [s \in Sagas |-> 0]
  /\ fromCache = [s \in Sagas |-> FALSE]
  /\ errPago = [s \in Sagas |-> ""]
  /\ liberado = [s \in Sagas |-> ""]
  /\ outcome = [s \in Sagas |-> ""]
  /\ notificado = [s \in Sagas |-> ""]
  /\ cache \in -1..totalUnits
  /\ call = [c \in Callers |-> NoCall]
  /\ tx = [s \in Sagas |-> "none"]
  /\ reservas = [s \in Sagas |-> "none"]
  /\ cpc = [c \in Cancels |-> "idle"]
  /\ ctarget = [c \in Cancels |-> 0]
  /\ cout = [c \in Cancels |-> 0]
  /\ fault = FALSE
  /\ BulkheadInit
  /\ IcIdle
  /\ BrIdle
  /\ IvIdle
  /\ GwIdle
  /\ LsIdle
  /\ DlIdle
  /\ AdIdle
  /\ RtIdle
  /\ PgIdle

NextDisponibilidad ==
  \/ \E s \in Sagas : Acquire(s)
  \/ \E s \in Sagas : ConsultLive(s)
  \/ \E s \in Sagas : ConsultFail(s)
  \/ RedisDown

SpecDisponibilidad == InitDisponibilidad /\ [][NextDisponibilidad]_vars

\* ------------------------------------- DELETE /reservas/:id, concurrently
\* One reservation stored as confirmada with its payment completado, and the
\* DELETE requests for it.  The handler awaits POST /pagos/reembolsar, then
\* POST /inventario/:id/liberar, and only then sets reserva.estado.

\* seats of the reservation cancelled (reserva.asientos)
DlAsientos == 1

\* lines 376-389: the reservation is looked up and its estado tested
DlStart(d) ==
  /\ dlPc[d] = "new"
  /\ IF dlEstado = "cancelada"
     THEN /\ dlPc' = [dlPc EXCEPT ![d] = "done"]
          /\ dlResp' = [dlResp EXCEPT ![d] = 409]
     ELSE /\ dlPc' = [dlPc EXCEPT ![d] = "refund"]
          /\ UNCHANGED dlResp
  /\ UNCHANGED <<dlEstado, dlTx, dlSeats, dlRefund, dlReleases, dlFault>>
  /\ UNCHANGED <<sysVars, bulkVars, rtVars, pgVars, icVars, brVars, ivVars, gwVars, lsVars,
                 adVars>>

\* POST /pagos/reembolsar up to its sleep(500): a transaction already
\* reembolsado is refused with 409, which the DELETE's catch turns into 500;
\* or the payment service cannot be reached
DlRefundCheck(d, reached) ==
  /\ dlPc[d] = "refund"
  /\ IF reached /\ dlTx # "reembolsado"
     THEN /\ dlPc' = [dlPc EXCEPT ![d] = "refunding"]
          /\ UNCHANGED <<dlResp, dlRefund, dlFault>>
     ELSE /\ dlPc' = [dlPc EXCEPT ![d] = "done"]
          /\ dlResp' = [dlResp EXCEPT ![d] = 500]
          /\ dlRefund' = [dlRefund EXCEPT ![d] = IF reached THEN 409 ELSE 0]
          /\ dlFault' = (dlFault \/ ~reached)
  /\ UNCHANGED <<dlEstado, dlTx, dlSeats, dlReleases>>
  /\ UNCHANGED <<sysVars, bulkVars, rtVars, pgVars, icVars, brVars, ivVars, gwVars, lsVars,
                 adVars>>

\* ... and after the sleep: the transaction is marked and the refund answered
\* 200; the DELETE goes on to release the seats
DlRefundCommit(d) ==
  /\ dlPc[d] = "refunding"
  /\ dlTx' = "reembolsado"
  /\ dlRefund' = [dlRefund EXCEPT ![d] = 200]
  /\ dlPc' = [dlPc EXCEPT ![d] = "liberar"]
  /\ UNCHANGED <<dlEstado, dlSeats, dlResp, dlReleases, dlFault>>
  /\ UNCHANGED <<sysVars, bulkVars, rtVars, pgVars, icVars, brVars, ivVars, gwVars, lsVars,
                 adVars>>

\* lines 396-413: liberar is executed and answered, the reservation is marked
\* cancelada and the DELETE answers 200; or the inventory service cannot be
\* reached and the catch answers 500
DlLiberar(d, reached) ==
  /\ dlPc[d] = "liberar"
  /\ dlPc' = [dlPc EXCEPT ![d] = "done"]
  /\ IF reached
     THEN /\ dlSeats' = dlSeats + DlAsientos
          /\ dlReleases' = dlReleases + 1
          /\ dlEstado' = "cancelada"
          /\ dlResp' = [dlResp EXCEPT ![d] = 200]
          /\ UNCHANGED dlFault
     ELSE /\ dlResp' = [dlResp EXCEPT ![d] = 500]
          /\ dlFault' = TRUE
          /\ UNCHANGED <<dlSeats, dlReleases, dlEstado>>
  /\ UNCHANGED <<dlTx, dlRefund>>
  /\ UNCHANGED <<sysVars, bulkVars, rtVars, pgVars, icVars, brVars, ivVars, gwVars, lsVars,
                 adVars>>

InitCancelar ==
  /\ SysIdle
  /\ BulkheadInit
  /\ IcIdle
  /\ BrIdle
  /\ IvIdle
  /\ GwIdle
  /\ LsIdle
  /\ AdIdle
  /\ RtIdle
  /\ PgIdle
  /\ dlEstado = "confirmada"
  /\ dlTx = "completado"
  /\ dlSeats \in 0..MaxUnits
  /\ dlPc = [d \in Deletes |-> "new"]
  /\ dlResp = [d \in Deletes |-> 0]
  /\ dlRefund = [d \in Deletes |-> 0]
  /\ dlReleases = 0
  /\ dlFault = FALSE

NextCancelar ==
  \/ \E d \in Deletes : DlStart(d)
  \/ \E d \in Deletes, reached \in BOOLEAN : DlRefundCheck(d, reached)
  \/ \E d \in Deletes : DlRefundCommit(d)
  \/ \E d \in Deletes, reached \in BOOLEAN : DlLiberar(d, reached)

SpecCancelar == InitCancelar /\ [][NextCancelar]_vars

\* ------------------------------------------------- fault-injection endpoints
\* The inventory service's failure middleware tests the const SIMULAR_FALLO
\* and runs before every route, /admin/simular-fallo included; the payment
\* service's latency middleware tests the consts SIMULAR_LATENCIA and
\* LATENCIA_MS and lets /admin/simular-latencia through.  The admin handlers
\* assign process.env.

Latencias == {LatenciaMs, LatenciaLarga}

adFrame == <<sysVars, bulkVars, rtVars, pgVars, icVars, brVars, ivVars, gwVars, lsVars, dlVars>>

\* POST /admin/simular-fallo {activar}
AdSimularFallo(activar) ==
  /\ adActivar' = activar
  /\ adInventario' = "none"
  /\ envSimularFallo' = IF simularFallo THEN envSimularFallo ELSE activar
  /\ UNCHANGED <<simularFallo, simularLatencia, envSimularLatencia, latenciaMs,
                 envLatenciaMs, adDemora>>
  /\ UNCHANGED adFrame

\* any request to the inventory service: the middleware answers nothing when
\* SIMULAR_FALLO, else passes it on to its route
AdInventarioRequest ==
  /\ adInventario' = IF simularFallo THEN "unanswered" ELSE "answered"
  /\ UNCHANGED <<simularFallo, envSimularFallo, simularLatencia, envSimularLatencia,
                 latenciaMs, envLatenciaMs, adActivar, adDemora>>
  /\ UNCHANGED adFrame

\* POST /admin/simular-latencia {activar, latenciaMs}; latenciaMs may be
\* left out
AdSimularLatencia(activar, given, ms) ==
  /\ envSimularLatencia' = activar
  /\ envLatenciaMs' = IF given THEN ms ELSE envLatenciaMs
  /\ adDemora' = -1
  /\ UNCHANGED <<simularFallo, envSimularFallo, simularLatencia, latenciaMs, adActivar,
                 adInventario>>
  /\ UNCHANGED adFrame

\* a payment request (/pagos/procesar, /pagos/reembolsar): the middleware
\* sleeps LATENCIA_MS when SIMULAR_LATENCIA
AdPagoRequest ==
  /\ adDemora' = IF simularLatencia THEN latenciaMs ELSE 0
  /\ UNCHANGED <<simularFallo, envSimularFallo, simularLatencia, envSimularLatencia,
                 latenciaMs, envLatenciaMs, adActivar, adInventario>>
  /\ UNCHANGED adFrame

\* the services start: the consts are read from the environment
InitAdmin ==
  /\ SysIdle
  /\ BulkheadInit
  /\ IcIdle
  /\ BrIdle
  /\ IvIdle
  /\ GwIdle
  /\ LsIdle
  /\ DlIdle
  /\ RtIdle
  /\ PgIdle
  /\ envSimularFallo \in BOOLEAN
  /\ simularFallo = envSimularFallo
  /\ adActivar = envSimularFallo
  /\ envSimularLatencia \in BOOLEAN
  /\ simularLatencia = envSimularLatencia
  /\ envLatenciaMs \in Latencias
  /\ latenciaMs = envLatenciaMs
  /\ adInventario = "none"
  /\ adDemora = -1

NextAdmin ==
  \/ \E activar \in BOOLEAN : AdSimularFallo(activar)
  \/ AdInventarioRequest
  \/ \E activar \in BOOLEAN, given \in BOOLEAN, ms \in Latencias :
       AdSimularLatencia(activar, given, ms)
  \/ AdPagoRequest

SpecAdmin == InitAdmin /\ [][NextAdmin]_vars

\* ------------------------------------------------------------------ claims
Others(s) == Sagas \ {s}

\* nobody but saga s has sent a request so far
OnlySaga(s) ==
  /\ \A t \in Others(s) : pc[t] = "init"
  /\ \A c \in Cancels : cpc[c] = "idle"

\* the service still uses the store it started with
StoreStable ==
  \/ redisConnected /\ redisUp
  \/ ~redisConnected /\ redisInv = totalUnits

\* C1: asientosDisponibles is never negative, in the Redis copy and in the
\* in-memory copy, whatever the interleaving of sagas, reservar and liberar
\* requests.
C1_NonNegative == redisInv >= 0 /\ memInv >= 0

\* C1 witness: the last seat is taken by one saga while another saga's
\* reservar request for it was refused and is being retried.
C1_Witness ==
  \E s \in Sagas, t \in Sagas :
    /\ s # t
    /\ pc[s] \in {"pago", "notif"}
    /\ pc[t] = "reservar" /\ call[t].att > 0
    /\ Disponibles = 0
    /\ ~fault

\* C2 (as claimed): asientosDisponibles, as the service reports it, never
\* exceeds the event's initial number of seats.
C2_WithinTotal == Disponibles <= totalUnits

\* C3 (as claimed): one seat, every request asks for one, no payment fails,
\* no collaborator fails and nobody gives up waiting for the lock; once all
\* sagas have answered, exactly one is CONFIRMED, the others are
\* REJECTED_UNAVAILABLE or REJECTED_INVENTORY_RACE, and no seat is left.
C3_OneWinner ==
  ( /\ totalUnits = 1
    /\ ~fault
    /\ \A c \in Cancels : cpc[c] = "idle"
    /\ \A s \in Sagas : /\ pc[s] = "done"
                        /\ asientos[s] = 1
                        /\ errPago[s] = ""
                        /\ redlockUp => lease[s] # "none" )
  => /\ Cardinality({s \in Sagas : outcome[s] = "CONFIRMED"}) = 1
     /\ \A s \in Sagas : outcome[s] \in {"CONFIRMED", "REJECTED_UNAVAILABLE",
                                        "REJECTED_INVENTORY_RACE"}
     /\ Disponibles = 0

\* a saga that acquired the lock and has not yet released it nor answered
InLockedSection(s) ==
  /\ lease[s] \in {"held", "expired"}
  /\ pc[s] \in {"check", "reservar", "pago", "liberar", "notif"}

\* C4 (as claimed): at most one saga is between its lock acquisition and its
\* lock release.
C4_MutualExclusion == Cardinality({s \in Sagas : InLockedSection(s)}) <= 1

\* C5: at most one saga holds a valid lease on the key, and the lock store
\* names that saga: a second acquire succeeds only after the first lease was
\* released or has expired.
C5_OneValidLease ==
  /\ Cardinality({s \in Sagas : lease[s] = "held"}) <= 1
  /\ \A s \in Sagas : lease[s] = "held" <=> lockStore = s

\* C5 witness: a second acquire succeeded after the first lease expired
\* under its holder.
C5_Witness ==
  \E s \in Sagas, t \in Sagas : lease[s] = "expired" /\ pc[s] # "done" /\ lease[t] = "held"

\* C6 (as claimed): a saga whose payment failed after it decremented the
\* inventory, with no other request on the event, has answered only when
\* asientosDisponibles is back at its value before the decrement.
C6_Restored ==
  \A s \in Sagas :
    (pc[s] = "done" /\ errPago[s] # "" /\ OnlySaga(s))
      => Disponibles = totalUnits

\* C7 (as claimed): once the compensation of one failed reservation is over
\* (the retry loop has ended), asientosDisponibles is what it was before the
\* decrement if liberar ran, however often it ran (or still short of it by
\* the seats of the reservation if liberar never ran).
C7_Idempotent ==
  \A s \in Sagas :
    ( /\ pc[s] = "done" /\ errPago[s] # "" /\ OnlySaga(s)
      /\ call[s] = NoCall
      /\ StoreStable )
      => Disponibles \in {totalUnits - asientos[s], totalUnits}

\* C8: a saga that has answered holds no lease: the lock store does not name
\* it and its Lock object was released (or ran out).
C8_ReleasedAtResponse ==
  \A s \in Sagas : pc[s] = "done" => (lease[s] # "held" /\ lockStore # s)

\* C8 witness: two sagas that acquired the lock have answered, one on the
\* decrement-failed path and one on the payment-failed path, both with the
\* lock released.
C8_Witness ==
  \E s \in Sagas, t \in Sagas :
    /\ pc[s] = "done" /\ lease[s] = "released"
    /\ outcome[s] = "ERROR_RESERVING_500"
    /\ pc[t] = "done" /\ lease[t] = "released"
    /\ outcome[t] = "CANCELLED_PAYMENT_FAILED"

\* the queue bound of the design (10 in its example)
MaxQueueLength == 2

\* C9: 0 <= currentConcurrent <= maxConcurrent in every state of a Bulkhead.
C9_ConcurrencyBound ==
  /\ 0 <= currentConcurrent
  /\ currentConcurrent <= MaxConcurrent

\* C9 witness: the bulkhead is full, tasks wait, and a task has completed
\* (by failure).
C9_Witness ==
  /\ currentConcurrent = MaxConcurrent
  /\ Len(queue) > 0
  /\ \E t \in Tasks : tstate[t] = "rejected"

\* C10 (as claimed): the wait queue never holds more than maxQueueLength
\* tasks.
C10_QueueBounded == Len(queue) <= MaxQueueLength

\* the tasks submitted so far, and those of them that have not completed
Submitted == {t \in Tasks : tstate[t] # "new"}
Running == {t \in Tasks : tstate[t] = "running"}

\* C11: while no task has completed, min(N, maxConcurrent) of the N tasks
\* submitted are running and the other N - min(N, maxConcurrent) wait in the
\* queue; and at any time a task waits in the queue only while
\* currentConcurrent = maxConcurrent.
C11_RunMinQueueRest ==
  /\ (Submitted = Running \cup {queue[i] : i \in 1..Len(queue)})
       => /\ Cardinality(Running) = Min(Cardinality(Submitted), MaxConcurrent)
          /\ Len(queue) = Cardinality(Submitted) - Cardinality(Running)
  /\ Len(queue) > 0 => currentConcurrent = MaxConcurrent
  /\ currentConcurrent = Cardinality(Running)

\* C11 witness: every task was submitted and none has completed: the
\* bulkhead is full and the rest waits.
C11_Witness ==
  /\ Submitted = Tasks
  /\ Cardinality(Running) = MaxConcurrent
  /\ Len(queue) = NumTasks - MaxConcurrent

\* the failures the design classifies as non-retryable
NonRetryable == {"rejection", "validation"}

\* C18 (as claimed): fn is not invoked again after an invocation that ended
\* in a non-retryable failure.
C18_AbortsOnNonRetryable ==
  \A i \in 1..(Len(rtLog) - 1) : rtLog[i] \notin NonRetryable

\* C19: a call with maxRetries = N invokes fn at most N + 1 times and never
\* after an invocation that succeeded; it returns the result of that first
\* success, or throws the error of the last attempt once all N + 1 failed.
C19_BoundedAttempts ==
  /\ Len(rtLog) <= rtMax + 1
  /\ \A i \in 1..(Len(rtLog) - 1) : rtLog[i] # "ok"
  /\ rtPc = "returned" =>
       /\ Len(rtLog) >= 1
       /\ rtLog[Len(rtLog)] = "ok"
       /\ rtResult = <<"ok", Len(rtLog) - 1>>
  /\ rtPc = "thrown" =>
       /\ Len(rtLog) = rtMax + 1
       /\ \A i \in 1..Len(rtLog) : rtLog[i] # "ok"
       /\ rtResult = <<rtLog[Len(rtLog)], rtMax>>

\* C19 witness: all three attempts of a call with maxRetries = 2 failed, the
\* last one otherwise than the first, and the call has thrown.
C19_Witness ==
  /\ rtPc = "thrown"
  /\ rtMax = 2
  /\ Len(rtLog) = 3
  /\ rtLog[1] # rtLog[3]

\* the payment deadline of the design
PaymentDeadline == 5000

\* C15 (as claimed): a saga whose payment service takes longer than the
\* payment deadline to answer ends CANCELLED_PAYMENT_TIMEOUT, its payment
\* step having ended before that answer, and with asientosDisponibles back
\* at its value before the decrement.
C15_PaymentDeadline ==
  (pgPc = "done" /\ pgTiempo > PaymentDeadline)
    => /\ pgOutcome = "CANCELLED_PAYMENT_TIMEOUT"
       /\ pgElapsed < pgTiempo
       /\ pgUnits = pgInicial

\* the reservation of s has not been the target of a DELETE
NotCancelled(s) == \A c \in Cancels : ctarget[c] # s

\* C16 (as claimed): a saga whose notification call failed has answered
\* CONFIRMED, its reservation is stored as confirmada, and it has run no
\* compensation (the seats it took stay taken).
C16_NotificationHarmless ==
  \A s \in Sagas :
    (pc[s] = "done" /\ notificado[s] = "failed" /\ NotCancelled(s))
      => /\ outcome[s] = "CONFIRMED"
         /\ reservas[s] = "confirmada"
         /\ liberado[s] = ""
         /\ call[s] = NoCall

\* C17 (as claimed): a saga whose lease ran out before the saga released it
\* answers as it would with the lease held: CONFIRMED once its reservation is
\* stored, CANCELLED_PAYMENT_* once its payment failed.
C17_ExpiredReleaseNoOp ==
  \A s \in Sagas :
    (pc[s] = "done" /\ lease[s] = "expired")
      => IF errPago[s] # ""
         THEN outcome[s] \in {"CANCELLED_PAYMENT_TIMEOUT", "CANCELLED_PAYMENT_FAILED"}
         ELSE outcome[s] = "CONFIRMED"

\* the fromCache field of the response of s: only the body of the 409 'Seats
\* not available' (lines 222-227) has one, set to inventario.fromCache || false
RespFromCache(s) == outcome[s] = "REJECTED_UNAVAILABLE" /\ fromCache[s]

\* C20 (as claimed): a saga that decided on a cached read and answered with a
\* rejection for lack of seats or with a confirmation answered with
\* fromCache = true.
C20_StaleFlagged ==
  \A s \in Sagas :
    (pc[s] = "done" /\ fromCache[s]
       /\ outcome[s] \in {"REJECTED_UNAVAILABLE", "CONFIRMED"})
      => RespFromCache(s)

\* C14: a consultarInventario call whose live read failed returned the cached
\* entry of its eventoId, flagged fromCache, if and only if the id has an
\* entry whose age at the call was strictly less than the TTL; otherwise it
\* threw.
C14_CacheFallback ==
  icResult.kind \in {"cached", "thrown"} =>
    LET cached == inventarioCache[icResult.evento] IN
      /\ icResult.kind = "cached"
           <=> (cached # NoEntry /\ icResult.at - cached.timestamp < InventarioCacheTtl)
      /\ icResult.kind = "cached"
           => (icResult.fromCache /\ icResult.data = cached.data)

C14_Witness ==
  /\ icResult.kind = "cached"
  /\ icResult.at - inventarioCache[icResult.evento].timestamp = InventarioCacheTtl - 1
  /\ \E e \in Eventos : inventarioCache[e] = NoEntry

\* C12: a failure in CLOSED opens the breaker exactly when the window then
\* holds at least volumeThreshold calls and its failure ratio exceeds
\* errorThresholdPercentage; nothing else takes the breaker out of CLOSED;
\* while fewer than volumeThreshold calls were made the breaker is CLOSED;
\* and once NumCalls calls, all in the window, have all failed or been
\* rejected, the breaker is not CLOSED.
C12_OpensOnThreshold ==
  [][/\ \A c \in BrCallIds :
          (brState = "closed" /\ brCalls[c] = "inflight" /\ brCalls'[c] = "failed")
            => (brState' = "open"
                  <=> /\ brFires' >= VolumeThreshold
                      /\ brFailures' * 100 > ErrorThresholdPercentage * brFires')
     /\ (brState = "closed" /\ brState' # "closed")
          => \E c \in BrCallIds : brCalls[c] = "inflight" /\ brCalls'[c] = "failed"
     /\ Cardinality(BrMade') < VolumeThreshold => brState' = "closed"
     /\ ((\A c \in BrCallIds : brCalls'[c] \in {"failed", "rejected"})
           /\ brFires' = NumCalls)
          => brState' # "closed"
    ]_vars

C12_Witness ==
  /\ brState = "open"
  /\ brProbe = 0
  /\ brFires = NumCalls
  /\ \A c \in BrCallIds : brCalls[c] \in {"failed", "rejected"}
  /\ brContacts = VolumeThreshold

\* C13: the breaker becomes HALF_OPEN only from OPEN when the reset timer
\* fires; in HALF_OPEN the first call is admitted as the probe and is then
\* the only call in flight; a call fired in OPEN, or in HALF_OPEN once the
\* probe is admitted, is rejected without the wrapped function being
\* invoked; the probe's success closes the breaker, its failure opens it
\* with the reset timer running again.
C13_SingleProbe ==
  [][/\ \A c \in BrCallIds :
          (brState = "halfOpen" /\ brCalls[c] = "new" /\ brCalls'[c] # "new")
            => IF brPendingClose
               THEN /\ brCalls'[c] = "inflight"
                    /\ ~brPendingClose'
                    /\ BrInFlight' = {c}
                    /\ brContacts' = brContacts + 1
               ELSE /\ brCalls'[c] = "rejected"
                    /\ brContacts' = brContacts
                    /\ brState' = "halfOpen"
     /\ \A c \in BrCallIds :
          (brState = "open" /\ brCalls[c] = "new" /\ brCalls'[c] # "new")
            => (brCalls'[c] = "rejected" /\ brContacts' = brContacts)
     /\ \A c \in BrCallIds :
          (brState = "halfOpen" /\ brCalls[c] = "inflight" /\ brCalls'[c] = "ok")
            => brState' = "closed"
     /\ \A c \in BrCallIds :
          (brState = "halfOpen" /\ brCalls[c] = "inflight" /\ brCalls'[c] = "failed")
            => (brState' = "open" /\ brResetTimer')
     /\ brState' = "halfOpen" => Cardinality(BrInFlight') <= 1
     /\ (brState # "halfOpen" /\ brState' = "halfOpen")
          => (brState = "open" /\ brResetTimer /\ brPendingClose')
    ]_vars

C13_Witness ==
  /\ brState = "halfOpen"
  /\ brProbe # 0
  /\ brCalls[brProbe] = "inflight"
  /\ \E c \in BrCallIds : c > brProbe /\ brCalls[c] = "rejected"

\* the terminal states of the design
TerminalStates ==
  {"CONFIRMED", "REJECTED_NO_LOCK", "REJECTED_UNAVAILABLE", "REJECTED_INVENTORY_RACE",
   "CANCELLED_PAYMENT_FAILED", "CANCELLED_PAYMENT_TIMEOUT"}

\* C21 (as claimed): a saga that has answered is in one of the terminal
\* states of the design.
C21_TerminalState ==
  \A s \in Sagas : pc[s] = "done" => outcome[s] \in TerminalStates

\* C23 (as claimed): a saga that has answered after the store refused its
\* decrement for lack of seats has answered REJECTED_INVENTORY_RACE, with
\* its lease released and no payment made.
C23_RaceRejected ==
  \A s \in Sagas :
    (pc[s] = "done" /\ call[s].kind = "reservar" /\ call[s].refused)
      => /\ outcome[s] = "REJECTED_INVENTORY_RACE"
         /\ lease[s] # "held"
         /\ tx[s] = "none"

\* C27 (as claimed): a saga that has answered has no request of its retry
\* loops still to be sent or executed.
C27_NothingPending ==
  \A s \in Sagas : pc[s] = "done" => call[s] = NoCall

\* no saga, cancellation or request of theirs is under way
Quiet ==
  /\ \A s \in Sagas : pc[s] \in {"init", "done"}
  /\ \A c \in Cancels : cpc[c] \in {"idle", "done"}
  /\ \A c \in Callers : call[c] = NoCall

\* C29 (as claimed): when nothing is under way, a payment transaction in
\* state completado belongs to a reservation stored as confirmada.
C29_NoOrphanCharge ==
  Quiet => \A s \in Sagas : tx[s] = "completado" => reservas[s] = "confirmada"

\* the seats of the reservations stored as confirmada
RECURSIVE SeatsConfirmed(_)
SeatsConfirmed(S) ==
  IF S = {} THEN 0
  ELSE LET s == CHOOSE x \in S : TRUE IN
         (IF reservas[s] = "confirmada" THEN asientos[s] ELSE 0)
           + SeatsConfirmed(S \ {s})

\* no compensation and no cancellation has failed to release its seats
NoFailedCompensation ==
  /\ \A s \in Sagas : liberado[s] # "CRITICAL"
  /\ \A c \in Cancels : cout[c] # 500

\* C30 (as claimed): when nothing is under way and no compensation has
\* failed, asientosDisponibles plus the seats of the confirmed reservations
\* is the event's initial number of seats.
C30_SeatsConserved ==
  (Quiet /\ NoFailedCompensation)
    => Disponibles + SeatsConfirmed(Sagas) = totalUnits

\* C25 (as claimed): a saga that holds a lease compensates or confirms, and
\* answers, before the lease's 10000 ms have run out (the time since
\* procesarPago was called is less than the lease's duration).
C25_WithinLease ==
  (pgLock /\ pgPc \in {"compensar", "confirmar", "done"}) => pgElapsed < LeaseMs

\* the seats the answered requests of one kind asked for
RECURSIVE IvSum(_, _)
IvSum(R, k) ==
  IF R = {} THEN 0
  ELSE LET r == CHOOSE x \in R : TRUE IN
         (IF ivReq[r].kind = k THEN ivReq[r].n ELSE 0) + IvSum(R \ {r}, k)

\* C24 (as claimed): once liberar and reservar requests have all succeeded,
\* the service still on the store it started with, asientosDisponibles is
\* its initial value plus the seats released minus the seats reserved.
C24_NoLostUpdate ==
  ( /\ \A r \in ReqIds : ivReq[r].pc = "done" /\ ivReq[r].status = 200
    /\ ~fault
    /\ redisConnected = redisUp )
  => Disponibles = totalUnits + IvSum(ReqIds, "liberar") - IvSum(ReqIds, "reservar")

\* C26 (as claimed): a reservar request that finds fewer seats in Redis than
\* it asks for, Redis in use and reachable, is answered 409, changes
\* neither copy of the inventory and leaves the service on Redis.
C26_RefusalRejects ==
  [][\A r \in ReqIds :
       ( /\ ivReq[r].kind = "reservar" /\ ivReq[r].pc = "new" /\ ivReq'[r].pc = "done"
         /\ redisConnected /\ redisUp /\ redisInv < ivReq[r].n )
       => /\ ivReq'[r].status = 409
          /\ redisInv' = redisInv
          /\ memInv' = memInv
          /\ redisConnected'
    ]_vars

\* C28: one POST /api/reservas received by the gateway leads to at most one
\* saga execution that decrements inventory or charges a payment, also when
\* the reservations service answers with an error or later than the timeout.
C28_SingleExecution == Cardinality(GwEffective) <= 1

\* C22: a lease whose holder crashed or hung stops excluding the others once
\* leaseDuration has elapsed, and an acquire made on the free key succeeds:
\* the key does not stay locked forever.
C22_LeaseExpires ==
  \A c \in LsClients : \A d \in LsClients \ {c} :
    /\ (lsSt[c] = "crashed" /\ lsHolder = c) ~> (lsHolder # c)
    /\ (lsSt[c] = "crashed" /\ lsHolder = 0 /\ lsSt[d] = "acquiring") ~> (lsHolder # 0)

\* a client holds the key that a crashed client never released
C22_Witness ==
  \E c \in LsClients : \E d \in LsClients \ {c} :
    lsSt[c] = "crashed" /\ lsSt[d] = "holding" /\ lsHolder = d

\* C31 (as claimed): after a payment failure the compensating liberar has
\* been attempted before the saga releases its lock, the lock is no longer
\* held when the saga has answered, and a saga's reservar request decrements
\* the inventory only while the saga waits for it, so that no saga that
\* changed the inventory has ended without compensating.
C31_CompensateReleaseRespond ==
  /\ [](\A s \in Sagas :
         /\ (errPago[s] # "" /\ liberado[s] = "")
              => (lease[s] # "released" /\ pc[s] # "done")
         /\ pc[s] = "done" => lease[s] # "held")
  /\ [][\A s \in Sagas :
         ( /\ call[s].kind = "reservar" /\ call'[s] # call[s]
           /\ (redisInv' < redisInv \/ memInv' < memInv) )
         => call[s].waiting]_vars

C33_NoLockRejected ==
  \A s \in Sagas :
    (redlockUp /\ pc[s] = "done" /\ lease[s] = "none")
      => /\ outcome[s] = "REJECTED_NO_LOCK"
         /\ call[s] = NoCall
         /\ tx[s] = "none"
         /\ reservas[s] = "none"

\* C34 (as claimed): no task waits in the queue longer than queueTimeout, and
\* a task that has waited longer is never started.
C34_QueueTimeout ==
  /\ [](\A t \in Tasks : tstate[t] = "queued" => espera[t] <= QueueTimeout)
  /\ [][\A t \in Tasks :
         (tstate[t] = "queued" /\ espera[t] > QueueTimeout) => tstate'[t] # "running"]_vars

\* C35: the queued tasks are started in the order of their submission: a
\* task that finds the bulkhead full goes to the end of the queue, every
\* completion (by success or failure) with tasks waiting starts the oldest
\* of them and only it, and a new task starts at once only when none waits.
C35_Fifo ==
  [][ /\ \A t \in Tasks :
           (tstate[t] = "new" /\ tstate'[t] = "queued") => queue' = Append(queue, t)
      /\ \A t \in Tasks :
           (tstate[t] # "running" /\ tstate'[t] = "running")
             => IF queue = <<>> THEN tstate[t] = "new"
                ELSE t = Head(queue) /\ queue' = Tail(queue)
      /\ ( /\ \E t \in Tasks : tstate[t] = "running" /\ tstate'[t] \in {"resolved", "rejected"}
           /\ queue # <<>> )
          => /\ tstate'[Head(queue)] = "running"
             /\ queue' = Tail(queue)
             /\ \A u \in Tasks \ {Head(queue)} : tstate[u] = "queued" => tstate'[u] = "queued"
    ]_vars

\* a task that waited has been started after a failure while later tasks
\* still wait
C35_Witness ==
  /\ \E t \in Tasks : tstate[t] = "running" /\ espera[t] > 0
  /\ \E t \in Tasks : tstate[t] = "rejected"
  /\ Len(queue) > 1

\* C36: if every running task eventually completes, every queued task is
\* eventually started and eventually settled with its own result or error;
\* and when no task runs or waits, currentConcurrent is 0 and the queue is
\* empty.
C36_QueueDrains ==
  /\ \A t \in Tasks : (tstate[t] = "queued") ~> (tstate[t] \in {"resolved", "rejected"})
  /\ [][\A t \in Tasks :
         (tstate[t] # tstate'[t] /\ tstate'[t] \in {"resolved", "rejected"})
           => tstate[t] = "running"]_vars
  /\ []((\A t \in Tasks : tstate[t] \notin {"running", "queued"})
          => (currentConcurrent = 0 /\ queue = <<>>))

\* every task was submitted, tasks waited, and all are settled, some by
\* success and some by failure
C36_Witness ==
  /\ \A t \in Tasks : tstate[t] \in {"resolved", "rejected"}
  /\ \E t \in Tasks : tstate[t] = "resolved" /\ espera[t] > 0
  /\ \E t \in Tasks : tstate[t] = "rejected" /\ espera[t] > 0
  /\ currentConcurrent = 0

\* the DELETE requests whose refund request was answered 200
DlRefunded == {d \in Deletes : dlRefund[d] = 200}

\* C37 (as claimed): the DELETE requests for one confirmed reservation
\* refund its payment at most once and release its seats at most once; once
\* all are answered, no collaborator having failed, the reservation is
\* cancelada, one request was answered 200 and every other 409.
C37_CancelOnce ==
  /\ Cardinality(DlRefunded) <= 1
  /\ dlReleases <= 1
  /\ ((\A d \in Deletes : dlPc[d] = "done") /\ ~dlFault)
       => /\ dlEstado = "cancelada"
          /\ Cardinality({d \in Deletes : dlResp[d] = 200}) = 1
          /\ \A d \in Deletes : dlResp[d] \in {200, 409}

\* C38 (as claimed): a DELETE answered with an error has not refunded the
\* payment, and when no DELETE is under way a refunded payment does not
\* stand beside a reservation still confirmada.
C38_ErrorUnchanged ==
  /\ \A d \in Deletes : dlResp[d] = 500 => dlRefund[d] # 200
  /\ (\A d \in Deletes : dlPc[d] \in {"new", "done"})
       => ~(dlTx = "reembolsado" /\ dlEstado = "confirmada")

\* C39 (as claimed): of the POST /pagos/reembolsar requests for one
\* transaction at most one is answered 200.
C39_SingleRefund == Cardinality(DlRefunded) < 2

\* C40 (as claimed): an inventory request sent after POST
\* /admin/simular-fallo is left unanswered iff the last such POST activated
\* the failure, and a payment request sent after POST
\* /admin/simular-latencia is delayed by the latency last set iff the last
\* such POST activated it.
C40_AdminTakesEffect ==
  /\ adInventario # "none" => ((adInventario = "unanswered") <=> adActivar)
  /\ adDemora # -1 => adDemora = (IF envSimularLatencia THEN envLatenciaMs ELSE 0)


====
